---- MODULE Spec2Model ----
(***************************************************************************)
(* A model of the platformer in src/app/page.tsx: the Game component's     *)
(* state (mode, levelIndex, levelRef, playerRef, lastTimeRef), the Enter   *)
(* key handler, the start button, the animation-frame callback `loop`,     *)
(* and the per-tick simulation `update` with its helpers.                  *)
(*                                                                         *)
(* Numbers.  The program computes in IEEE doubles.  The model computes in  *)
(* fixed point: a length or a velocity v is the integer v * Scale, a clock *)
(* time in milliseconds t is the integer t * 1000 (microseconds), and the  *)
(* frame factor dt is the integer dt * DtScale.  With dt in {0.5, 1, 1.5}  *)
(* every product the code forms from the level data is exact at this       *)
(* scale, except the friction product vx * 0.8, which is truncated toward  *)
(* zero at 1/Scale of a pixel.  The model's sums are exact decimals; the   *)
(* program rounds each to the nearest double, so a comparison the program  *)
(* makes at an exact decimal tie of accumulated fractions (0.3, 0.35, 0.4  *)
(* per tick) may fall on the other side there.  Positions stepped by 0.5,  *)
(* 1 or 1.5 and every clock time are exact in both.                        *)
(*                                                                         *)
(* React.  setMode / setLevelIndex are asynchronous: React re-renders and  *)
(* re-runs the effects whose dependencies changed ([mode, levelIndex] for  *)
(* the loop, [mode, started] for the key handler) before the browser runs  *)
(* the next event handler or animation frame.  The model takes the commit  *)
(* as part of the handler that requested it, so `mode` and `levelIndex`    *)
(* are at once the React state and the values the closures read.           *)
(***************************************************************************)
EXTENDS Integers, Sequences, FiniteSets, TLC

VARIABLES
    mode,        \* useState<GameMode>: "menu" | "playing" | "win" | "gameover"
    levelIndex,  \* useState<number>: 0 intro, 1..3 fases, 4 boss (5 after the win)
    level,       \* levelRef.current
    player,      \* playerRef.current
    lastTime,    \* lastTimeRef.current, microseconds (0: no frame seen yet)
    keysRef,     \* useKeys(): keysRef.current, as the last frame found it
    fx           \* what the last handler did: its kind and the calls it made

vars == <<mode, levelIndex, level, player, lastTime, keysRef, fx>>

----------------------------------------------------------------------------
(* Fixed point *)

Scale == 100 * 100
DtScale == 10 * 100

\* n pixels
Px(n) == n * Scale
\* the decimal n/d (0.35 is Dec(35, 100))
Dec(n, d) == (n * Scale) \div d

Abs(v) == IF v < 0 THEN -v ELSE v
Sign(v) == IF v > 0 THEN 1 ELSE IF v < 0 THEN -1 ELSE 0

\* a * b / c rounded toward zero, as the double product rounds to the grid
MulDiv(a, b, c) == Sign(a) * ((Abs(a) * b) \div c)

\* v * dt
Times(v, dt) == MulDiv(v, dt, DtScale)

----------------------------------------------------------------------------
(* Constants of the program *)

BASE_W == 256
BASE_H == 144
GRAVITY == Dec(35, 100)
MOVE_SPEED == Dec(10, 10)
JUMP_VEL == -Dec(60, 10)
MAX_FALL == Dec(65, 10)
\* 16.67 ms, the nominal frame, in microseconds
FrameUs == 16670
\* the fire cooldown, 5000 ms, in microseconds
FireCooldownUs == 5000 * 1000
\* the lose margin below the world: y > BASE_H + 10
LoseMargin == 10

----------------------------------------------------------------------------
(* Utils *)

aabb(a, b) ==
    ~(a.x + a.w <= b.x \/ a.x >= b.x + b.w \/ a.y + a.h <= b.y \/ a.y >= b.y + b.h)

Max(a, b) == IF a >= b THEN a ELSE b
Min(a, b) == IF a <= b THEN a ELSE b

clamp(v, min, max) == Max(min, Min(max, v))

makePlayer(spawnX, spawnY) ==
    [x |-> spawnX, y |-> spawnY, w |-> Px(8), h |-> Px(12), vx |-> 0, vy |-> 0,
     facing |-> 1, onGround |-> FALSE, crouch |-> FALSE, canFireAt |-> 0, invuln |-> 0]

----------------------------------------------------------------------------
(* Levels.  A platform without vx/range has vx = 0 and range = << >>; the   *)
(* code's test `pl.vx && pl.range` is false for both.  level.boss is << >> *)
(* when the level has no boss and <<b>> when it has one.                   *)

Plat(x, y, w, h) == [x |-> Px(x), y |-> Px(y), w |-> Px(w), h |-> Px(h), vx |-> 0, range |-> << >>]

MovingPlat(x, y, w, h, vx, lo, hi) ==
    [x |-> Px(x), y |-> Px(y), w |-> Px(w), h |-> Px(h), vx |-> vx, range |-> <<Px(lo), Px(hi)>>]

Rect(x, y, w, h) == [x |-> Px(x), y |-> Px(y), w |-> Px(w), h |-> Px(h)]

levelIntro ==
    LET worldW == 520
        groundY == 110
    IN [kind |-> "intro",
        platforms |-> << Plat(0, groundY, worldW, 8), Plat(160, groundY - 12, 30, 6) >>,
        enemies |-> << >>, projs |-> << >>, arrows |-> << >>,
        gem |-> Rect(worldW - 30, groundY - 20, 10, 10),
        boss |-> << >>,
        cameraX |-> 0, worldW |-> Px(worldW), worldH |-> Px(BASE_H), tick |-> 0]

levelFase1 ==
    LET worldW == 820
        groundY == 110
    IN [kind |-> "fase1",
        platforms |-> << Plat(0, groundY, 180, 8), Plat(196, groundY, 110, 8),
                         Plat(324, groundY, 100, 8), Plat(444, groundY, 90, 8),
                         Plat(552, groundY, 90, 8), Plat(662, groundY, 120, 8),
                         MovingPlat(308, groundY - 22, 34, 6, Dec(3, 10), 300, 360) >>,
        enemies |-> << >>, projs |-> << >>, arrows |-> << >>,
        gem |-> Rect(worldW - 26, groundY - 20, 10, 10),
        boss |-> << >>,
        cameraX |-> 0, worldW |-> Px(worldW), worldH |-> Px(BASE_H), tick |-> 0]

levelFase2 ==
    LET worldW == 700
        groundY == 110
        swordsman == [type |-> "swordsman", x |-> Px(360), y |-> Px(groundY - 16),
                      w |-> Px(10), h |-> Px(14), alive |-> TRUE, dir |-> -1,
                      minX |-> Px(330), maxX |-> Px(480), speed |-> Dec(4, 10)]
    IN [kind |-> "fase2",
        platforms |-> << Plat(0, groundY, worldW, 8), Plat(220, groundY - 24, 36, 6),
                         Plat(420, groundY - 18, 36, 6) >>,
        enemies |-> << swordsman >>, projs |-> << >>, arrows |-> << >>,
        gem |-> Rect(worldW - 26, groundY - 20, 10, 10),
        boss |-> << >>,
        cameraX |-> 0, worldW |-> Px(worldW), worldH |-> Px(BASE_H), tick |-> 0]

levelFase3 ==
    LET worldW == 720
        groundY == 110
        archer == [type |-> "archer", x |-> Px(380), y |-> Px(groundY - 16),
                   w |-> Px(10), h |-> Px(14), alive |-> TRUE, cooldown |-> 0,
                   fireRate |-> 180]
    IN [kind |-> "fase3",
        platforms |-> << Plat(0, groundY, worldW, 8), Plat(160, groundY - 22, 40, 6),
                         Plat(220, groundY - 32, 40, 6), Plat(280, groundY - 22, 40, 6) >>,
        enemies |-> << archer >>, projs |-> << >>, arrows |-> << >>,
        gem |-> Rect(worldW - 26, groundY - 20, 10, 10),
        boss |-> << >>,
        cameraX |-> 0, worldW |-> Px(worldW), worldH |-> Px(BASE_H), tick |-> 0]

levelBoss ==
    LET worldW == 640
        groundY == 110
        boss == [x |-> Px(worldW - 90), y |-> Px(groundY - 20), w |-> Px(18), h |-> Px(20),
                 hp |-> 3, alive |-> TRUE, phase |-> 0, timer |-> 0, vx |-> 0, vy |-> 0,
                 grounded |-> TRUE]
    IN [kind |-> "boss",
        platforms |-> << Plat(0, groundY, worldW, 8) >>,
        enemies |-> << >>, projs |-> << >>, arrows |-> << >>,
        gem |-> Rect(worldW - 32, groundY - 20, 12, 12),
        boss |-> << boss >>,
        cameraX |-> 0, worldW |-> Px(worldW), worldH |-> Px(BASE_H), tick |-> 0]

----------------------------------------------------------------------------
(* Movement and collisions *)

\* the branch of the horizontal loop for one platform
HorizontalHit(body, p) ==
    IF aabb(body, p)
    THEN [ (IF body.vx > 0 THEN [body EXCEPT !.x = p.x - body.w]
            ELSE IF body.vx < 0 THEN [body EXCEPT !.x = p.x + p.w]
            ELSE body) EXCEPT !.vx = 0 ]
    ELSE body

\* `(body as any).onGround = v; if ("grounded" in body) body.grounded = v`.
\* The boss record carries no onGround field: the property the cast adds to
\* the boss object is read nowhere.
SetGrounded(body, v) ==
    IF "grounded" \in DOMAIN body
    THEN [body EXCEPT !.grounded = v]
    ELSE [body EXCEPT !.onGround = v]

\* (a landing that keeps the speed of the fall)
VerticalHitKeepsSpeed(body, p) ==
    IF aabb(body, p)
    THEN IF body.vy > 0
         THEN SetGrounded([body EXCEPT !.y = p.y - body.h], TRUE)
         ELSE IF body.vy < 0
              THEN [body EXCEPT !.y = p.y + p.h, !.vy = 0]
              ELSE body
    ELSE body

\* the branch of the vertical loop for one platform
VerticalHit(body, p) ==
    IF aabb(body, p)
    THEN IF body.vy > 0
         THEN SetGrounded([body EXCEPT !.y = p.y - body.h, !.vy = 0], TRUE)
         ELSE IF body.vy < 0
              THEN [body EXCEPT !.y = p.y + p.h, !.vy = 0]
              ELSE body
    ELSE body

\* A value the code computes once and then reads several times is bound
\* once, as the only element of a set:  CHOOSE r \in { F(x) : x \in {v} } : TRUE
\* is F at v.  A chain of such sets reads from the innermost set outwards.

RECURSIVE HorizontalPass(_, _, _)
HorizontalPass(body, platforms, i) ==
    IF i > Len(platforms) THEN body
    ELSE CHOOSE r \in { HorizontalPass(b, platforms, i + 1) :
                          b \in { HorizontalHit(body, platforms[i]) } } : TRUE

RECURSIVE VerticalPass(_, _, _)
VerticalPass(body, platforms, i) ==
    IF i > Len(platforms) THEN body
    ELSE CHOOSE r \in { VerticalPass(b, platforms, i + 1) :
                          b \in { VerticalHit(body, platforms[i]) } } : TRUE

moveAndCollide(body, platforms, dt) ==
    CHOOSE r \in
        { VerticalPass(b4, platforms, 1) : b4 \in
        { [b3 EXCEPT !.y = b3.y + Times(b3.vy, dt)] : b3 \in
        { SetGrounded(b2, FALSE) : b2 \in
        { HorizontalPass(b1, platforms, 1) : b1 \in
        { [body EXCEPT !.x = body.x + Times(body.vx, dt)] } } } } } : TRUE

bossIntegrate(b, platforms, dt) ==
    CHOOSE r \in
        { moveAndCollide(b1, platforms, dt) : b1 \in
        { [b EXCEPT !.vy = clamp(b.vy + Times(GRAVITY, dt), -Px(999), MAX_FALL)] } } : TRUE

\* the index of the platform found (0: null), scanning with best / bestY
RECURSIVE GroundScan(_, _, _, _)
GroundScan(a, platforms, i, best) ==
    IF i > Len(platforms) THEN best
    ELSE LET p == platforms[i]
             better == a.x + a.w > p.x /\ a.x < p.x + p.w
                       /\ p.y >= a.y /\ (best = 0 \/ p.y < platforms[best].y)
         IN CHOOSE r \in { GroundScan(a, platforms, i + 1, b) :
                             b \in { IF better THEN i ELSE best } } : TRUE

findGroundBelow(a, platforms) == GroundScan(a, platforms, 1, 0)

spawnShockwave(lv, boss) ==
    LET left == [x |-> boss.x, y |-> boss.y + boss.h - Px(2), w |-> Px(6), h |-> Px(2),
                 vx |-> -Dec(16, 10), vy |-> 0, life |-> 90, friendly |-> FALSE]
        right == [x |-> boss.x + boss.w - Px(6), y |-> boss.y + boss.h - Px(2),
                  w |-> Px(6), h |-> Px(2), vx |-> Dec(16, 10), vy |-> 0, life |-> 90,
                  friendly |-> FALSE]
    IN [lv EXCEPT !.arrows = Append(Append(@, left), right)]

----------------------------------------------------------------------------
(* Audio cues.  A handler's calls of audio.sfx*() are recorded in order,   *)
(* each with the place in update that made it (site) and, for a hit, the   *)
(* indices of the projectile (i) and of the enemy (j) it was made for.     *)

Cue(name, site, i, j) == [cue |-> name, site |-> site, i |-> i, j |-> j]

----------------------------------------------------------------------------
(* update(level, p, keys, t, dt), in the order of the code.  Each step     *)
(* takes and returns s = [lv, p, cues].                                    *)

\* level.tick++
StepTick(s) == [s EXCEPT !.lv.tick = @ + 1]

\* (a platform that turns as its edge touches the end of the range)
MovePlatformEager(pl, dt) ==
    IF pl.vx # 0 /\ Len(pl.range) = 2
    THEN LET x1 == pl.x + Times(pl.vx, dt)
         IN [pl EXCEPT !.x = x1,
                       !.vx = IF x1 <= pl.range[1] \/ x1 + pl.w >= pl.range[2] THEN -pl.vx ELSE pl.vx]
    ELSE pl

\* Move platforms (optional)
MovePlatform(pl, dt) ==
    IF pl.vx # 0 /\ Len(pl.range) = 2
    THEN LET x1 == pl.x + Times(pl.vx, dt)
         IN [pl EXCEPT !.x = x1,
                       !.vx = IF x1 < pl.range[1] \/ x1 + pl.w > pl.range[2] THEN -pl.vx ELSE pl.vx]
    ELSE pl

StepPlatforms(s, dt) ==
    [s EXCEPT !.lv.platforms = [i \in 1..Len(s.lv.platforms) |-> MovePlatform(s.lv.platforms[i], dt)]]

\* (a jump that does not ask for a standing, grounded player)
StepInputJumpsAlways(s, keys) ==
    LET p == s.p
        wantLeft == keys.left /\ ~keys.right
        wantRight == keys.right /\ ~keys.left
        onGround == p.onGround
        crouch == keys.crouch /\ onGround
        maxSpeed == IF crouch THEN MulDiv(MOVE_SPEED, 6, 10) ELSE MOVE_SPEED
        decayed == MulDiv(p.vx, 8, 10)
        p1 == [p EXCEPT !.crouch = crouch]
        p2 == IF wantLeft THEN [p1 EXCEPT !.vx = -maxSpeed, !.facing = -1]
              ELSE IF wantRight THEN [p1 EXCEPT !.vx = maxSpeed, !.facing = 1]
              ELSE [p1 EXCEPT !.vx = IF Abs(decayed) < Dec(2, 100) THEN 0 ELSE decayed]
    IN IF keys.jump
       THEN [s EXCEPT !.p = [p2 EXCEPT !.vy = JUMP_VEL, !.onGround = FALSE],
                      !.cues = Append(@, Cue("jump", "jump", 0, 0))]
       ELSE [s EXCEPT !.p = p2]

\* Input, jump
StepInput(s, keys) ==
    LET p == s.p
        wantLeft == keys.left /\ ~keys.right
        wantRight == keys.right /\ ~keys.left
        onGround == p.onGround
        crouch == keys.crouch /\ onGround
        maxSpeed == IF crouch THEN MulDiv(MOVE_SPEED, 6, 10) ELSE MOVE_SPEED
        decayed == MulDiv(p.vx, 8, 10)
        p1 == [p EXCEPT !.crouch = crouch]
        p2 == IF wantLeft THEN [p1 EXCEPT !.vx = -maxSpeed, !.facing = -1]
              ELSE IF wantRight THEN [p1 EXCEPT !.vx = maxSpeed, !.facing = 1]
              ELSE [p1 EXCEPT !.vx = IF Abs(decayed) < Dec(2, 100) THEN 0 ELSE decayed]
        jumps == keys.jump /\ onGround /\ ~p2.crouch
    IN IF jumps
       THEN [s EXCEPT !.p = [p2 EXCEPT !.vy = JUMP_VEL, !.onGround = FALSE],
                      !.cues = Append(@, Cue("jump", "jump", 0, 0))]
       ELSE [s EXCEPT !.p = p2]

\* (a strict comparison in the cooldown test)
StepFireStrict(s, keys, t) ==
    LET p == s.p
        fb == [x |-> IF p.facing = 1 THEN p.x + p.w ELSE p.x - Px(4),
               y |-> p.y + Px(4), w |-> Px(4), h |-> Px(3),
               vx |-> p.facing * Dec(22, 10), vy |-> 0, life |-> 120, friendly |-> TRUE]
    IN IF keys.fire /\ t > p.canFireAt
       THEN [s EXCEPT !.lv.projs = Append(@, fb),
                      !.p.canFireAt = t + FireCooldownUs,
                      !.cues = Append(@, Cue("shoot", "fire", 0, 0))]
       ELSE s

\* Fireball
StepFire(s, keys, t) ==
    LET p == s.p
        fb == [x |-> IF p.facing = 1 THEN p.x + p.w ELSE p.x - Px(4),
               y |-> p.y + Px(4), w |-> Px(4), h |-> Px(3),
               vx |-> p.facing * Dec(22, 10), vy |-> 0, life |-> 120, friendly |-> TRUE]
    IN IF keys.fire /\ t >= p.canFireAt
       THEN [s EXCEPT !.lv.projs = Append(@, fb),
                      !.p.canFireAt = t + FireCooldownUs,
                      !.cues = Append(@, Cue("shoot", "fire", 0, 0))]
       ELSE s

\* (a crouch that shrinks the box from the bottom)
PlayerBodyKeepsTop(p, dt) ==
    LET vy1 == clamp(p.vy + Times(GRAVITY, dt), -Px(999), MAX_FALL)
        h1 == IF p.crouch THEN Px(8) ELSE Px(12)
    IN [p EXCEPT !.vy = vy1, !.h = h1]

\* Gravity and crouch height: the player as moveAndCollide receives it
PlayerBody(p, dt) ==
    LET vy1 == clamp(p.vy + Times(GRAVITY, dt), -Px(999), MAX_FALL)
        baseH == Px(12)
        crouchH == Px(8)
        prevH == p.h
        h1 == IF p.crouch THEN crouchH ELSE baseH
        y1 == IF h1 < prevH THEN p.y + (prevH - h1) ELSE p.y
    IN [p EXCEPT !.vy = vy1, !.h = h1, !.y = y1]

\* Gravity, crouch height, integrate and collide, camera follow
StepPlayerMove(s, dt) ==
    CHOOSE r \in
        { [s EXCEPT !.p = p1,
                    !.lv.cameraX = clamp(p1.x - Px(BASE_W) \div 2 + p1.w \div 2,
                                         0, s.lv.worldW - Px(BASE_W))] : p1 \in
        { moveAndCollide(p0, s.lv.platforms, dt) : p0 \in
        { PlayerBody(s.p, dt) } } } : TRUE

\* Enemies AI.  `if (ground) e.y = ground.y - e.h`
SnapToGround(e, platforms) ==
    CHOOSE r \in
        { IF ground # 0 THEN [e EXCEPT !.y = platforms[ground].y - e.h] ELSE e : ground \in
        { findGroundBelow(e, platforms) } } : TRUE

\* the swordsman's patrol step
Patrol(e, dt) ==
    LET x1 == e.x + e.dir * Times(e.speed, dt)
    IN [e EXCEPT !.x = x1,
                 !.dir = IF x1 < e.minX \/ x1 + e.w > e.maxX THEN -e.dir ELSE e.dir]

\* the swordsman's contact with the player
SwordsmanContact(s, i, e2) ==
    LET p == s.p
    IN [s EXCEPT !.lv.enemies[i] = e2,
                 !.p = IF aabb(p, e2)
                       THEN [p EXCEPT !.vx = (IF p.x < e2.x THEN -1 ELSE 1) * Dec(12, 10),
                                      !.vy = -Px(2)]
                       ELSE p]

\* (a shot that always flies left)
ArcherShootLeft(s, i, e2) ==
    IF e2.cooldown <= 0
    THEN [s EXCEPT !.lv.enemies[i] = [e2 EXCEPT !.cooldown = e2.fireRate],
                   !.lv.arrows = Append(@,
                       [x |-> e2.x + e2.w, y |-> e2.y + Px(6), w |-> Px(5), h |-> Px(2),
                        vx |-> -Dec(16, 10),
                        vy |-> 0, life |-> 240, friendly |-> FALSE])]
    ELSE [s EXCEPT !.lv.enemies[i] = e2]

\* the archer's shot
ArcherShoot(s, i, e2) ==
    IF e2.cooldown <= 0
    THEN [s EXCEPT !.lv.enemies[i] = [e2 EXCEPT !.cooldown = e2.fireRate],
                   !.lv.arrows = Append(@,
                       [x |-> e2.x + e2.w, y |-> e2.y + Px(6), w |-> Px(5), h |-> Px(2),
                        vx |-> IF s.p.x > e2.x THEN Dec(16, 10) ELSE -Dec(16, 10),
                        vy |-> 0, life |-> 240, friendly |-> FALSE])]
    ELSE [s EXCEPT !.lv.enemies[i] = e2]

\* (an enemy loop without `if (!e.alive) continue`)
EnemyAIUndead(s, i, dt) ==
    LET e == s.lv.enemies[i]
    IN IF e.type = "swordsman"
       THEN CHOOSE r \in
                { SwordsmanContact(s, i, e2) : e2 \in
                { SnapToGround(e1, s.lv.platforms) : e1 \in
                { Patrol(e, dt) } } } : TRUE
       ELSE IF e.type = "archer"
       THEN CHOOSE r \in
                { ArcherShoot(s, i, e2) : e2 \in
                { SnapToGround(e1, s.lv.platforms) : e1 \in
                { [e EXCEPT !.cooldown = @ - 1] } } } : TRUE
       ELSE s

\* the body of the loop for enemy i
EnemyAI(s, i, dt) ==
    LET e == s.lv.enemies[i]
    IN IF ~e.alive THEN s
       ELSE IF e.type = "swordsman"
       THEN CHOOSE r \in
                { SwordsmanContact(s, i, e2) : e2 \in
                { SnapToGround(e1, s.lv.platforms) : e1 \in
                { Patrol(e, dt) } } } : TRUE
       ELSE IF e.type = "archer"
       THEN CHOOSE r \in
                { ArcherShoot(s, i, e2) : e2 \in
                { SnapToGround(e1, s.lv.platforms) : e1 \in
                { [e EXCEPT !.cooldown = @ - 1] } } } : TRUE
       ELSE s

RECURSIVE EnemiesFrom(_, _, _)
EnemiesFrom(s, i, dt) ==
    IF i > Len(s.lv.enemies) THEN s
    ELSE CHOOSE r \in { EnemiesFrom(s1, i + 1, dt) : s1 \in { EnemyAI(s, i, dt) } } : TRUE

StepEnemies(s, dt) == EnemiesFrom(s, 1, dt)

\* Projectiles: integrate both collections, then filter both
Integrate(pr, dt) ==
    [pr EXCEPT !.x = pr.x + Times(pr.vx, dt), !.y = pr.y + Times(pr.vy, dt), !.life = pr.life - 1]

\* (a filter that keeps the projectiles whose life has just run out)
KeepSpent(pr, worldW) == pr.life >= 0 /\ pr.x > -Px(10) /\ pr.x < worldW + Px(10)

Keep(pr, worldW) == pr.life > 0 /\ pr.x > -Px(10) /\ pr.x < worldW + Px(10)

StepProjectiles(s, dt) ==
    LET moved(q) == [i \in 1..Len(q) |-> Integrate(q[i], dt)]
        kept(q) == SelectSeq(q, LAMBDA pr: Keep(pr, s.lv.worldW))
    IN [s EXCEPT !.lv.projs = kept(moved(s.lv.projs)),
                 !.lv.arrows = kept(moved(s.lv.arrows))]

\* (a hit that spends the projectile and leaves the enemy alive)
FireballEnemySpares(s, i, j) ==
    IF s.lv.enemies[j].alive /\ aabb(s.lv.projs[i], s.lv.enemies[j])
    THEN [s EXCEPT !.lv.projs[i].life = 0,
                   !.cues = Append(@, Cue("hit", "fireball-enemy", i, j))]
    ELSE s

\* Fireball collisions: the inner loop's body for projectile i and enemy j
FireballEnemy(s, i, j) ==
    LET pr == s.lv.projs[i]
        e == s.lv.enemies[j]
    IN IF e.alive /\ aabb(pr, e)
       THEN [s EXCEPT !.lv.enemies[j].alive = FALSE,
                      !.lv.projs[i].life = 0,
                      !.cues = Append(@, Cue("hit", "fireball-enemy", i, j))]
       ELSE s

RECURSIVE FireballEnemiesFrom(_, _, _)
FireballEnemiesFrom(s, i, j) ==
    IF j > Len(s.lv.enemies) THEN s
    ELSE CHOOSE r \in { FireballEnemiesFrom(s1, i, j + 1) :
                          s1 \in { FireballEnemy(s, i, j) } } : TRUE

\* (a boss that dies one hit early)
FireballBossEarly(s, i) ==
    IF Len(s.lv.boss) = 1 /\ s.lv.boss[1].alive /\ aabb(s.lv.projs[i], s.lv.boss[1])
    THEN LET hp1 == s.lv.boss[1].hp - 1
         IN [s EXCEPT !.lv.boss[1].hp = hp1,
                      !.lv.boss[1].alive = IF hp1 <= 1 THEN FALSE ELSE @,
                      !.lv.projs[i].life = 0,
                      !.cues = Append(@, Cue("hit", "fireball-boss", i, 0))]
    ELSE s

\* (a boss test that does not read the alive flag)
FireballBossNoGuard(s, i) ==
    IF Len(s.lv.boss) = 1 /\ aabb(s.lv.projs[i], s.lv.boss[1])
    THEN LET hp1 == s.lv.boss[1].hp - 1
         IN [s EXCEPT !.lv.boss[1].hp = hp1,
                      !.lv.boss[1].alive = IF hp1 <= 0 THEN FALSE ELSE @,
                      !.lv.projs[i].life = 0,
                      !.cues = Append(@, Cue("hit", "fireball-boss", i, 0))]
    ELSE s

\* ... and the test against the boss that follows the inner loop
FireballBoss(s, i) ==
    IF Len(s.lv.boss) = 1 /\ s.lv.boss[1].alive /\ aabb(s.lv.projs[i], s.lv.boss[1])
    THEN LET hp1 == s.lv.boss[1].hp - 1
         IN [s EXCEPT !.lv.boss[1].hp = hp1,
                      !.lv.boss[1].alive = IF hp1 <= 0 THEN FALSE ELSE @,
                      !.lv.projs[i].life = 0,
                      !.cues = Append(@, Cue("hit", "fireball-boss", i, 0))]
    ELSE s

\* the outer loop's body for projectile i
FireballHit(s, i) ==
    IF ~s.lv.projs[i].friendly THEN s
    ELSE CHOOSE r \in { FireballBoss(s1, i) : s1 \in { FireballEnemiesFrom(s, i, 1) } } : TRUE

RECURSIVE FireballsFrom(_, _)
FireballsFrom(s, i) ==
    IF i > Len(s.lv.projs) THEN s
    ELSE CHOOSE r \in { FireballsFrom(s1, i + 1) : s1 \in { FireballHit(s, i) } } : TRUE

StepFireballs(s) == FireballsFrom(s, 1)

\* (an arrow test without the crouch exemption)
ArrowHitNoCrouch(s, i) ==
    LET ar == s.lv.arrows[i]
    IN IF aabb(ar, s.p)
       THEN [s EXCEPT !.p.vx = -Sign(ar.vx) * Dec(16, 10),
                      !.p.vy = -Dec(25, 10),
                      !.cues = Append(@, Cue("hit", "arrow-player", i, 0))]
       ELSE s

\* (an arrow that is spent by its hit)
ArrowHitSpends(s, i) ==
    LET ar == s.lv.arrows[i]
        p == s.p
        arrowMidY == ar.y + ar.h \div 2
        headHeight == p.y + (IF p.crouch THEN Px(4) ELSE Px(6))
    IN IF aabb(ar, p) /\ ~(p.crouch /\ arrowMidY < headHeight)
       THEN [s EXCEPT !.p.vx = -Sign(ar.vx) * Dec(16, 10),
                      !.p.vy = -Dec(25, 10),
                      !.lv.arrows[i].life = 0,
                      !.cues = Append(@, Cue("hit", "arrow-player", i, 0))]
       ELSE s

\* Arrows hit player (crouch aids): the loop's body for arrow i
ArrowHit(s, i) ==
    LET ar == s.lv.arrows[i]
        p == s.p
        arrowMidY == ar.y + ar.h \div 2
        headHeight == p.y + (IF p.crouch THEN Px(4) ELSE Px(6))
    IN IF aabb(ar, p) /\ ~(p.crouch /\ arrowMidY < headHeight)
       THEN [s EXCEPT !.p.vx = -Sign(ar.vx) * Dec(16, 10),
                      !.p.vy = -Dec(25, 10),
                      !.cues = Append(@, Cue("hit", "arrow-player", i, 0))]
       ELSE s

RECURSIVE ArrowsFrom(_, _)
ArrowsFrom(s, i) ==
    IF i > Len(s.lv.arrows) THEN s
    ELSE CHOOSE r \in { ArrowsFrom(s1, i + 1) : s1 \in { ArrowHit(s, i) } } : TRUE

StepArrows(s) == ArrowsFrom(s, 1)

\* Boss AI: phase 0, leap toward the player and land
BossLeap(s, b0) ==
    IF b0.timer = 1
    THEN [b0 EXCEPT !.vx = IF s.p.x < b0.x THEN -Dec(12, 10) ELSE Dec(12, 10),
                    !.vy = -Dec(45, 10)]
    ELSE b0

\* (a landing test that reads `timer >= 90`)
BossLandEarly(s, moved) ==
    [s EXCEPT !.lv.boss = << IF moved.grounded /\ moved.timer >= 90
                             THEN [moved EXCEPT !.phase = 1, !.timer = 0]
                             ELSE moved >>]

BossLand(s, moved) ==
    [s EXCEPT !.lv.boss = << IF moved.grounded /\ moved.timer > 90
                             THEN [moved EXCEPT !.phase = 1, !.timer = 0]
                             ELSE moved >>]

BossPhase0(s, b0, dt) ==
    CHOOSE r \in
        { BossLand(s, moved) : moved \in
        { bossIntegrate(leap, s.lv.platforms, dt) : leap \in
        { BossLeap(s, b0) } } } : TRUE

\* phase 1, shockwaves
BossPhase1(s, b0) ==
    CHOOSE r \in
        { [s EXCEPT !.lv = [lv1 EXCEPT !.boss = << IF b0.timer > 100
                                                   THEN [b0 EXCEPT !.phase = 2, !.timer = 0]
                                                   ELSE b0 >>]] : lv1 \in
        { IF b0.timer = 1 THEN spawnShockwave(s.lv, b0) ELSE s.lv } } : TRUE

\* (a volley that always flies left)
BossPhase2Left(s, b0) ==
    LET volley == [x |-> b0.x - Px(4), y |-> b0.y + Px(7),
                   w |-> Px(5), h |-> Px(2), vx |-> -Dec(18, 10), vy |-> 0,
                   life |-> 200, friendly |-> FALSE]
    IN CHOOSE r \in
           { [s EXCEPT !.lv = [lv2 EXCEPT !.boss = << IF b0.timer > 100
                                                      THEN [b0 EXCEPT !.phase = 0, !.timer = 0]
                                                      ELSE b0 >>]] : lv2 \in
           { IF b0.timer = 1 \/ b0.timer = 30 \/ b0.timer = 60
             THEN [s.lv EXCEPT !.arrows = Append(@, volley)] ELSE s.lv } } : TRUE

\* phase 2, arrow volley
BossPhase2(s, b0) ==
    LET dir == IF s.p.x < b0.x THEN -1 ELSE 1
        volley == [x |-> b0.x + (IF dir = 1 THEN b0.w ELSE -Px(4)), y |-> b0.y + Px(7),
                   w |-> Px(5), h |-> Px(2), vx |-> dir * Dec(18, 10), vy |-> 0,
                   life |-> 200, friendly |-> FALSE]
    IN CHOOSE r \in
           { [s EXCEPT !.lv = [lv2 EXCEPT !.boss = << IF b0.timer > 100
                                                      THEN [b0 EXCEPT !.phase = 0, !.timer = 0]
                                                      ELSE b0 >>]] : lv2 \in
           { IF b0.timer = 1 \/ b0.timer = 30 \/ b0.timer = 60
             THEN [s.lv EXCEPT !.arrows = Append(@, volley)] ELSE s.lv } } : TRUE

BossPhase(s, b0, dt) ==
    IF b0.phase = 0 THEN BossPhase0(s, b0, dt)
    ELSE IF b0.phase = 1 THEN BossPhase1(s, b0)
    ELSE IF b0.phase = 2 THEN BossPhase2(s, b0)
    ELSE [s EXCEPT !.lv.boss = << b0 >>]

\* contact damage/knockback
BossContact(s) ==
    LET b == s.lv.boss[1]
        p == s.p
    IN IF aabb(b, p)
       THEN [s EXCEPT !.p.vx = IF p.x < b.x THEN -Dec(15, 10) ELSE Dec(15, 10),
                      !.p.vy = -Px(3)]
       ELSE s

\* (a boss AI that does not read the alive flag)
StepBossUndead(s, dt) ==
    IF Len(s.lv.boss) = 1
    THEN CHOOSE r \in
             { BossContact(s1) : s1 \in
             { BossPhase(s, b0, dt) : b0 \in
             { [s.lv.boss[1] EXCEPT !.timer = @ + 1] } } } : TRUE
    ELSE s

StepBoss(s, dt) ==
    IF Len(s.lv.boss) = 1 /\ s.lv.boss[1].alive
    THEN CHOOSE r \in
             { BossContact(s1) : s1 \in
             { BossPhase(s, b0, dt) : b0 \in
             { [s.lv.boss[1] EXCEPT !.timer = @ + 1] } } } : TRUE
    ELSE s

\* the steps in the order of the code, from s0 (innermost) to the boss
update(lv, p, keys, t, dt) ==
    CHOOSE r \in
        { StepBoss(s9, dt) : s9 \in
        { StepArrows(s8) : s8 \in
        { StepFireballs(s7) : s7 \in
        { StepProjectiles(s6, dt) : s6 \in
        { StepEnemies(s5, dt) : s5 \in
        { StepPlayerMove(s4, dt) : s4 \in
        { StepFire(s3, keys, t) : s3 \in
        { StepInput(s2, keys) : s2 \in
        { StepPlatforms(s1, dt) : s1 \in
        { StepTick(s0) : s0 \in
        { [lv |-> lv, p |-> p, cues |-> << >>] } } } } } } } } } } } : TRUE

----------------------------------------------------------------------------
(* The Game component *)

\* what a handler did: `updated` is whether update ran, `nextLevel` counts
\* the calls of nextLevel(), `cues` are the audio cues in the order made
Fx(op, updated, calls, cues) ==
    [op |-> op, updated |-> updated, nextLevel |-> calls, cues |-> cues]

Keys(l, r, j, f, c) ==
    [left |-> l, right |-> r, up |-> FALSE, down |-> c, jump |-> j, fire |-> f, crouch |-> c]

\* no key held: the initial value of keysRef
NoKeys == Keys(FALSE, FALSE, FALSE, FALSE, FALSE)

\* (a restart that keeps the old player)
startGameKeepsPlayer ==
    [mode |-> "playing", levelIndex |-> 0, level |-> levelIntro, player |-> player]

\* startGame(), as a state [mode, levelIndex, level, player]
startGame ==
    [mode |-> "playing", levelIndex |-> 0, level |-> levelIntro,
     player |-> makePlayer(Px(16), Px(40))]

\* (an advance that only counts: the level and the player stay)
nextLevelKeepsWorld(g) ==
    LET idx == g.levelIndex + 1
    IN IF idx <= 4 THEN [g EXCEPT !.levelIndex = idx]
       ELSE [g EXCEPT !.levelIndex = idx, !.mode = "win"]

\* (an advance that skips a level)
nextLevelSkips(g) ==
    LET idx == g.levelIndex + 2
        g1 == [g EXCEPT !.levelIndex = idx]
    IN IF idx = 2 THEN [g1 EXCEPT !.level = levelFase2, !.player = makePlayer(Px(16), Px(40))]
       ELSE IF idx = 3 THEN [g1 EXCEPT !.level = levelFase3, !.player = makePlayer(Px(16), Px(40))]
       ELSE IF idx = 4 THEN [g1 EXCEPT !.level = levelBoss, !.player = makePlayer(Px(24), Px(40))]
       ELSE [g1 EXCEPT !.mode = "win"]

\* (an advance that wins one level early)
nextLevelWinsEarly(g) ==
    LET idx == g.levelIndex + 1
        g1 == [g EXCEPT !.levelIndex = idx]
    IN IF idx = 1 THEN [g1 EXCEPT !.level = levelFase1, !.player = makePlayer(Px(16), Px(40))]
       ELSE IF idx = 2 THEN [g1 EXCEPT !.level = levelFase2, !.player = makePlayer(Px(16), Px(40))]
       ELSE IF idx = 3 THEN [g1 EXCEPT !.level = levelFase3, !.player = makePlayer(Px(16), Px(40))]
       ELSE [g1 EXCEPT !.mode = "win"]

\* nextLevel() called with the component state g = [mode, levelIndex, level, player]
nextLevel(g) ==
    LET idx == g.levelIndex + 1
        g1 == [g EXCEPT !.levelIndex = idx]
    IN IF idx = 1 THEN [g1 EXCEPT !.level = levelFase1, !.player = makePlayer(Px(16), Px(40))]
       ELSE IF idx = 2 THEN [g1 EXCEPT !.level = levelFase2, !.player = makePlayer(Px(16), Px(40))]
       ELSE IF idx = 3 THEN [g1 EXCEPT !.level = levelFase3, !.player = makePlayer(Px(16), Px(40))]
       ELSE IF idx = 4 THEN [g1 EXCEPT !.level = levelBoss, !.player = makePlayer(Px(24), Px(40))]
       ELSE [g1 EXCEPT !.mode = "win"]

\* dt = clamp((t - last) / 16.67, 0.5, 1.5) for a frame `delta` microseconds
\* after the last one; a delta beyond the clamp is cut before the division
frameDt(delta) ==
    clamp((Min(delta, 2 * FrameUs) * DtScale) \div FrameUs, DtScale \div 2, (3 * DtScale) \div 2)

\* (a loop without the early return)
skipUpdateNever(m) == FALSE

\* `if (mode !== "playing") return`
skipUpdate(m) == m # "playing"

\* (a level completion that waits for the enemies and the boss to die)
gemCheckNeedsKill(g, u) ==
    LET g1 == [g EXCEPT !.level = u.lv, !.player = u.p]
    IN IF /\ aabb(u.p, u.lv.gem)
          /\ \A i \in DOMAIN u.lv.enemies : ~u.lv.enemies[i].alive
          /\ \A i \in DOMAIN u.lv.boss : ~u.lv.boss[i].alive
       THEN [g |-> nextLevel(g1), calls |-> 1,
             cues |-> Append(u.cues, Cue("collect", "loop", 0, 0))]
       ELSE [g |-> g1, calls |-> 0, cues |-> u.cues]

\* `if (aabb(player, level.gem)) { audio.sfxCollect(); nextLevel(); }` on the
\* updated state u = [lv, p, cues] of the component state g
gemCheck(g, u) ==
    LET g1 == [g EXCEPT !.level = u.lv, !.player = u.p]
    IN IF aabb(u.p, u.lv.gem)
       THEN [g |-> nextLevel(g1), calls |-> 1,
             cues |-> Append(u.cues, Cue("collect", "loop", 0, 0))]
       ELSE [g |-> g1, calls |-> 0, cues |-> u.cues]

\* (a lose condition without the margin)
loseCheckNoMargin(r) ==
    IF r.g.player.y > Px(BASE_H)
    THEN [r EXCEPT !.g.mode = "gameover", !.cues = Append(@, Cue("death", "loop", 0, 0))]
    ELSE r

\* `if (player.y > BASE_H + 10) { audio.sfxDeath(); setMode("gameover"); }`
loseCheck(r) ==
    IF r.g.player.y > Px(BASE_H + LoseMargin)
    THEN [r EXCEPT !.g.mode = "gameover", !.cues = Append(@, Cue("death", "loop", 0, 0))]
    ELSE r

\* the part of loop(t) after the render, in mode "playing"
loopPlaying(g, k, t, dt) ==
    CHOOSE r \in
        { loseCheck(r1) : r1 \in
        { gemCheck(g, u) : u \in
        { update(g.level, g.player, k, t, dt) } } } : TRUE

\* loop(t): one animation frame at clock time t; k is keysRef as the frame finds it
loop(t, k) ==
    LET last == IF lastTime = 0 THEN t ELSE lastTime
        g == [mode |-> mode, levelIndex |-> levelIndex, level |-> level, player |-> player]
    IN /\ lastTime' = t
       /\ keysRef' = k
       /\ IF skipUpdate(mode)
          THEN /\ UNCHANGED <<mode, levelIndex, level, player>>
               /\ fx' = Fx("frame", FALSE, 0, << >>)
          ELSE \E dt \in {frameDt(t - last)} : \E r \in {loopPlaying(g, k, t, dt)} :
                  /\ mode' = r.g.mode
                  /\ levelIndex' = r.g.levelIndex
                  /\ level' = r.g.level
                  /\ player' = r.g.player
                  /\ fx' = Fx("frame", TRUE, r.calls, r.cues)

\* (an Enter that restarts the game in every mode)
onKeyEnterAlways ==
    /\ \E g \in {startGame} :
          /\ mode' = g.mode
          /\ levelIndex' = g.levelIndex
          /\ level' = g.level
          /\ player' = g.player
    /\ fx' = Fx("enter", FALSE, 0, << >>)
    /\ UNCHANGED <<lastTime, keysRef>>

\* onKey for e.key === "Enter" (audio start/resume aside)
onKeyEnter ==
    /\ IF mode = "menu" \/ mode = "win" \/ mode = "gameover"
       THEN \E g \in {startGame} :
               /\ mode' = g.mode
               /\ levelIndex' = g.levelIndex
               /\ level' = g.level
               /\ player' = g.player
       ELSE UNCHANGED <<mode, levelIndex, level, player>>
    /\ fx' = Fx("enter", FALSE, 0, << >>)
    /\ UNCHANGED <<lastTime, keysRef>>

\* the menu's "Iniciar (Enter)" button, rendered only in mode "menu"
onStartClick ==
    /\ mode = "menu"
    /\ \E g \in {startGame} :
          /\ mode' = g.mode
          /\ levelIndex' = g.levelIndex
          /\ level' = g.level
          /\ player' = g.player
    /\ fx' = Fx("click", FALSE, 0, << >>)
    /\ UNCHANGED <<lastTime, keysRef>>

\* the state after the component's construction (useState / useRef initial values)
Init ==
    /\ mode = "menu"
    /\ levelIndex = 0
    /\ level = levelIntro
    /\ player = makePlayer(Px(16), Px(40))
    /\ lastTime = 0
    /\ keysRef = NoKeys
    /\ fx = Fx("init", FALSE, 0, << >>)

----------------------------------------------------------------------------
(* The inputs of the playthrough (Spec).                                   *)
(*                                                                         *)
(* Keys.  The player holds Right and Fire, and jumps from the take-off     *)
(* zones before the intro's step and fase1's gaps; from FreeWindow pixels  *)
(* before the collectible on, the jump key is free in every frame.         *)
(*                                                                         *)
(* Clock.  Frames of a running game are FrameUs apart (dt = 1; the very    *)
(* first frame has dt = 0.5).  A stopped game (menu, win, gameover) only   *)
(* stores the time of its frames, so one frame at the next multiple of     *)
(* PauseUs stands for the frames of the pause, and Enter is pressed after  *)
(* it (or before the first frame of all).                                  *)

RightFire == Keys(FALSE, TRUE, FALSE, TRUE, FALSE)
RightJumpFire == Keys(FALSE, TRUE, TRUE, TRUE, FALSE)

\* take-off zones <<from, to>> (pixels, the player's x) of each level
TakeOff(kind) ==
    IF kind = "intro" THEN { <<135, 150>> }
    ELSE IF kind = "fase1"
    THEN { <<166, 178>>, <<292, 304>>, <<410, 422>>, <<520, 532>>, <<628, 640>>, <<762, 780>> }
    ELSE { }

PilotKeys ==
    IF \E z \in TakeOff(level.kind) : Px(z[1]) <= player.x /\ player.x <= Px(z[2])
    THEN RightJumpFire ELSE RightFire

\* how long before the collectible the jump key becomes free (pixels)
FreeWindow == 12
\* the clock's last frame, in nominal frames
MaxFrames == 9000

PauseUs == 64 * 1000 * 1000

InWindow == player.x + player.w >= level.gem.x - Px(FreeWindow)

KeysNow == IF InWindow THEN {RightFire, RightJumpFire} ELSE {PilotKeys}

FrameTime ==
    IF mode = "playing" THEN lastTime + FrameUs ELSE ((lastTime \div PauseUs) + 1) * PauseUs

\* one frame of the clock with the keys drawn from K while the game runs
FrameWith(K) ==
    /\ FrameTime <= MaxFrames * FrameUs
    /\ \E t \in {FrameTime} :
          \E k \in (IF mode = "playing" THEN K ELSE {keysRef}) : loop(t, k)

Frame == FrameWith(KeysNow)

EnterKey ==
    /\ mode = "playing" \/ lastTime = 0 \/ lastTime % PauseUs = 0
    /\ onKeyEnter

StartClick ==
    /\ lastTime = 0 \/ lastTime % PauseUs = 0
    /\ onStartClick

Next == Frame \/ EnterKey \/ StartClick

Spec == Init /\ [][Next]_vars

----------------------------------------------------------------------------
(* The boss fight (SpecBoss): the playthrough, but on the boss level the   *)
(* player stands at the spawn point and holds Fire while the boss lives,   *)
(* and walks on to the collectible once it is dead.                        *)

FireOnly == Keys(FALSE, FALSE, FALSE, TRUE, FALSE)

SiegeKeys ==
    IF Len(level.boss) = 1 /\ level.boss[1].alive THEN {FireOnly} ELSE KeysNow

SiegeFrame == FrameWith(SiegeKeys)

NextBoss == SiegeFrame \/ EnterKey \/ StartClick

SpecBoss == Init /\ [][NextBoss]_vars

----------------------------------------------------------------------------
(* The fire cooldown (SpecFire): a game started before its first frame,    *)
(* the player standing at the intro's spawn point, frames FireDeltas apart *)
(* with the Fire key up or down.                                           *)

\* the gaps between frames, microseconds: 1 ms, 4999 ms, 5000 ms
FireDeltas == { 1000, 4999 * 1000, 5000 * 1000 }

\* frames per run
MaxFireTicks == 6

FireStart ==
    /\ mode = "menu"
    /\ lastTime = 0
    /\ onKeyEnter

FireFrame ==
    /\ mode = "playing"
    /\ level.tick < MaxFireTicks
    /\ \E d \in FireDeltas : \E k \in {NoKeys, FireOnly} : loop(lastTime + d, k)

NextFire == FireStart \/ FireFrame

SpecFire == Init /\ [][NextFire]_vars

----------------------------------------------------------------------------
(* update on any Level (SpecHit).  update takes a Level; the five levels   *)
(* the factories build hold at most one enemy, and none beside the boss.   *)
(* Here the frames run on the boss level's ground with up to two archers,  *)
(* the boss or none, and one fireball in flight toward them.               *)

HitProjectileX == { 294, 297, 300 }
HitEnemyX == { 300, 303, 306 }
HitBossX == { 300, 310 }

\* ticks per run
MaxHitTicks == 3

HitArcher(x) ==
    [type |-> "archer", x |-> Px(x), y |-> Px(94), w |-> Px(10), h |-> Px(14),
     alive |-> TRUE, cooldown |-> 600, fireRate |-> 180]

HitBoss(x) == [levelBoss.boss[1] EXCEPT !.x = Px(x)]

HitFireball(x) ==
    [x |-> Px(x), y |-> Px(100), w |-> Px(4), h |-> Px(3), vx |-> Dec(22, 10), vy |-> 0,
     life |-> 60, friendly |-> TRUE]

HitEnemies ==
    { << >> } \cup { << HitArcher(x) >> : x \in HitEnemyX }
              \cup { << HitArcher(x), HitArcher(y) >> : x \in HitEnemyX, y \in HitEnemyX }

HitBosses == { << >> } \cup { << HitBoss(x) >> : x \in HitBossX }

InitHit ==
    /\ mode = "playing"
    /\ levelIndex = 4
    /\ \E x \in HitProjectileX : \E es \in HitEnemies : \E bs \in HitBosses :
          level = [levelBoss EXCEPT !.enemies = es, !.boss = bs, !.projs = << HitFireball(x) >>]
    /\ player = makePlayer(Px(24), Px(40))
    /\ lastTime = 0
    /\ keysRef = NoKeys
    /\ fx = Fx("init", FALSE, 0, << >>)

HitTick ==
    /\ level.tick < MaxHitTicks
    /\ loop(lastTime + FrameUs, NoKeys)

NextHit == HitTick

SpecHit == InitHit /\ [][NextHit]_vars

----------------------------------------------------------------------------
(* A barrage on the boss (SpecBarrage).  The run starts as the playthrough *)
(* enters the boss level: the frame that collected fase3's gem has just    *)
(* called nextLevel.  From there the frames come 5000 ms apart (a throttled *)
(* tab: dt = 1.5), so the fire cooldown has always run out and a held Fire *)
(* key shoots in every tick.  The player walks right toward the boss; from *)
(* tick BarrageFrom on the Fire key is free for BarrageFree ticks and held *)
(* after them (walking, the fireballs fly 1.8 px apart and 4 px wide).     *)

\* the gap between frames, microseconds
BarrageGapUs == 5000 * 1000

\* the first tick with a free Fire key, and the number of such ticks
BarrageFrom == 170
BarrageFree == 8
\* ticks per run
MaxBarrageTicks == 215

RightOnly == Keys(FALSE, TRUE, FALSE, FALSE, FALSE)

InitBarrage ==
    /\ mode = "playing"
    /\ levelIndex = 4
    /\ level = levelBoss
    /\ player = makePlayer(Px(24), Px(40))
    /\ lastTime = PauseUs + 2579 * FrameUs
    /\ keysRef = RightFire
    /\ fx = Fx("frame", TRUE, 1, << Cue("collect", "loop", 0, 0) >>)

BarrageKeys ==
    IF level.tick + 1 < BarrageFrom THEN {RightOnly}
    ELSE IF level.tick + 1 < BarrageFrom + BarrageFree THEN {RightFire, RightOnly}
    ELSE {RightFire}

BarrageFrame ==
    /\ mode = "playing"
    /\ level.tick < MaxBarrageTicks
    /\ \E k \in BarrageKeys : loop(lastTime + BarrageGapUs, k)

NextBarrage == BarrageFrame

SpecBarrage == InitBarrage /\ [][NextBarrage]_vars

----------------------------------------------------------------------------
(* Arrows at the player (SpecArrow).  update takes a Level and a Player;   *)
(* the hostile projectiles the five levels spawn fly at three heights only *)
(* (an archer's at y 100, the boss's volley at 97, its shockwaves at 108).  *)
(* Here the player stands on fase3's ground at x 24 with one or two        *)
(* hostile projectiles around, at the heights ArrowY and flying either     *)
(* way, and the Crouch key is free in every frame.                         *)

ArrowX == { 22, 30, 38 }
ArrowY == { 99, 101, 104, 105, 108 }
ArrowVx == { -Dec(16, 10), Dec(16, 10) }

\* ticks per run
MaxArrowTicks == 4

CrouchOnly == Keys(FALSE, FALSE, FALSE, FALSE, TRUE)

ArrowAt(x, y, vx) ==
    [x |-> Px(x), y |-> Px(y), w |-> Px(5), h |-> Px(2), vx |-> vx, vy |-> 0,
     life |-> 240, friendly |-> FALSE]

ArrowShots ==
    { << ArrowAt(x, y, vx) >> : x \in ArrowX, y \in ArrowY, vx \in ArrowVx }
    \cup { << ArrowAt(x, y, vx), ArrowAt(30, 108, -vx) >> : x \in ArrowX, y \in ArrowY, vx \in ArrowVx }

InitArrow ==
    /\ mode = "playing"
    /\ levelIndex = 3
    /\ \E as \in ArrowShots : level = [levelFase3 EXCEPT !.arrows = as]
    /\ player = [makePlayer(Px(24), Px(98)) EXCEPT !.onGround = TRUE]
    /\ lastTime = FrameUs
    /\ keysRef = NoKeys
    /\ fx = Fx("init", FALSE, 0, << >>)

ArrowTick ==
    /\ level.tick < MaxArrowTicks
    /\ \E k \in {NoKeys, CrouchOnly} : loop(lastTime + FrameUs, k)

NextArrow == ArrowTick

SpecArrow == InitArrow /\ [][NextArrow]_vars

----------------------------------------------------------------------------
(* Crouching and standing up (SpecCrouch).  The game is started before its *)
(* first frame and the player, no key held, falls from the spawn point to  *)
(* the intro's ground (LandTicks ticks); then one of no key, Crouch, Right *)
(* and Left is held in each of the next MaxCrouchTicks frames.             *)

\* ticks before the keys are free, and ticks with free keys
LandTicks == 22
MaxCrouchTicks == 5

LeftOnly == Keys(TRUE, FALSE, FALSE, FALSE, FALSE)

CrouchStart ==
    /\ mode = "menu"
    /\ lastTime = 0
    /\ onKeyEnter

CrouchKeys ==
    IF level.tick < LandTicks THEN {NoKeys} ELSE {NoKeys, CrouchOnly, RightOnly, LeftOnly}

CrouchFrame ==
    /\ mode = "playing"
    /\ level.tick < LandTicks + MaxCrouchTicks
    /\ \E k \in CrouchKeys : loop(lastTime + FrameUs, k)

NextCrouch == CrouchStart \/ CrouchFrame

SpecCrouch == Init /\ [][NextCrouch]_vars

----------------------------------------------------------------------------
(* Jumping and crouching (SpecJump).  The game is started before its first *)
(* frame and the player falls from the spawn point to the intro's ground;  *)
(* from JumpFrom on, so on the last ticks of the fall too, any of Jump and *)
(* Crouch is held in each of the next MaxJumpTicks frames.                 *)

\* the first tick with free keys, and the number of such ticks
JumpFrom == 20
MaxJumpTicks == 8

JumpOnly == Keys(FALSE, FALSE, TRUE, FALSE, FALSE)
CrouchJump == Keys(FALSE, FALSE, TRUE, FALSE, TRUE)

JumpKeys ==
    IF level.tick + 1 < JumpFrom THEN {NoKeys} ELSE {NoKeys, CrouchOnly, JumpOnly, CrouchJump}

JumpFrame ==
    /\ mode = "playing"
    /\ level.tick + 1 < JumpFrom + MaxJumpTicks
    /\ \E k \in JumpKeys : loop(lastTime + FrameUs, k)

NextJump == CrouchStart \/ JumpFrame

SpecJump == Init /\ [][NextJump]_vars

----------------------------------------------------------------------------
(* Meeting the enemies (SpecContact).  The run starts as the playthrough   *)
(* enters fase2.  The player walks right without firing and runs into the  *)
(* living swordsman; from tick ContactFrom on the Fire key is free for     *)
(* ContactFree ticks and held after them, on fase2 and through fase3.      *)

\* the first tick of fase2 with a free Fire key, and the number of such ticks
ContactFrom == 443
ContactFree == 6
\* ticks per level
MaxContactTicks == 800

InitContact ==
    /\ mode = "playing"
    /\ levelIndex = 2
    /\ level = levelFase2
    /\ player = makePlayer(Px(16), Px(40))
    /\ lastTime = 2 * PauseUs + 1243 * FrameUs
    /\ keysRef = RightFire
    /\ fx = Fx("frame", TRUE, 1, << Cue("collect", "loop", 0, 0) >>)

ContactKeys ==
    IF level.kind # "fase2" THEN {RightFire}
    ELSE IF level.tick + 1 < ContactFrom THEN {RightOnly}
    ELSE IF level.tick + 1 < ContactFrom + ContactFree THEN {RightOnly, RightFire}
    ELSE {RightFire}

ContactFrame ==
    /\ mode = "playing"
    /\ level.kind \in {"fase2", "fase3"}
    /\ level.tick < MaxContactTicks
    /\ \E k \in ContactKeys : loop(lastTime + FrameUs, k)

NextContact == ContactFrame

SpecContact == InitContact /\ [][NextContact]_vars

----------------------------------------------------------------------------
(* Luring the boss (SpecLure).  The run starts as the playthrough enters   *)
(* the boss level, with frames FrameUs apart.  The player walks right,     *)
(* past the boss, and waits between LureNear and LureFar, short of the     *)
(* collectible at x 608, walking back whenever a hit pushes it further.    *)

\* the player waits with LureNear <= x <= LureFar, in pixels
LureNear == 580
LureFar == 590
\* ticks per run
MaxLureTicks == 1400

LureKeys ==
    IF player.x < Px(LureNear) THEN RightOnly
    ELSE IF player.x > Px(LureFar) THEN LeftOnly
    ELSE NoKeys

LureFrame ==
    /\ mode = "playing"
    /\ level.tick < MaxLureTicks
    /\ loop(lastTime + FrameUs, LureKeys)

NextLure == LureFrame

SpecLure == InitBarrage /\ [][NextLure]_vars

----------------------------------------------------------------------------
(* Uneven frames (SpecJitter).  The run starts as the playthrough enters   *)
(* fase1 or fase2, and no key is held.  The frames come FrameUs apart      *)
(* until the kinematic platform of fase1, or the swordsman of fase2, is    *)
(* about to reach the end of its range; each of the next JitterFree frames *)
(* comes after half, one or one and a half FrameUs (dt 0.5, 1 or 1.5).     *)

\* the first tick with a free frame gap on fase1 and on fase2, and the number
\* of such ticks
JitterFromFase1 == 58
JitterFromFase2 == 73
JitterFree == 8

InitFase1 ==
    /\ mode = "playing"
    /\ levelIndex = 1
    /\ level = levelFase1
    /\ player = makePlayer(Px(16), Px(40))
    /\ lastTime = 467 * FrameUs
    /\ keysRef = RightFire
    /\ fx = Fx("frame", TRUE, 1, << Cue("collect", "loop", 0, 0) >>)

InitJitter == InitFase1 \/ InitContact

JitterFrom == IF level.kind = "fase1" THEN JitterFromFase1 ELSE JitterFromFase2

JitterGaps ==
    IF level.tick + 1 < JitterFrom THEN {FrameUs}
    ELSE {FrameUs \div 2, FrameUs, FrameUs + FrameUs \div 2}

JitterFrame ==
    /\ mode = "playing"
    /\ level.tick + 1 < JitterFrom + JitterFree
    /\ \E gap \in JitterGaps : loop(lastTime + gap, NoKeys)

NextJitter == JitterFrame

SpecJitter == InitJitter /\ [][NextJitter]_vars

----------------------------------------------------------------------------
(* Passing the archer (SpecArcher).  The run starts as the playthrough     *)
(* enters fase3, with frames FrameUs apart.  The player walks right        *)
(* without firing, from the left of the archer to its right; in the        *)
(* ArcherFree ticks from ArcherFrom on it may also stand still.            *)

\* the first tick with a free Right key, and the number of such ticks
ArcherFrom == 175
ArcherFree == 8
\* ticks per run
MaxArcherTicks == 560

InitArcher ==
    /\ mode = "playing"
    /\ levelIndex = 3
    /\ level = levelFase3
    /\ player = makePlayer(Px(16), Px(40))
    /\ lastTime = 1894 * FrameUs
    /\ keysRef = RightFire
    /\ fx = Fx("frame", TRUE, 1, << Cue("collect", "loop", 0, 0) >>)

ArcherKeys ==
    IF level.tick + 1 >= ArcherFrom /\ level.tick + 1 < ArcherFrom + ArcherFree
    THEN {RightOnly, NoKeys}
    ELSE {RightOnly}

ArcherFrame ==
    /\ mode = "playing"
    /\ level.kind = "fase3"
    /\ level.tick < MaxArcherTicks
    /\ \E k \in ArcherKeys : loop(lastTime + FrameUs, k)

NextArcher == ArcherFrame

SpecArcher == InitArcher /\ [][NextArcher]_vars

----------------------------------------------------------------------------
(* findGroundBelow on any platform list (SpecGround).  update takes a      *)
(* Level; here the frames run on fase2 with one more platform, a ledge in  *)
(* the swordsman's patrol range or beside it, its top above, within or     *)
(* below the swordsman's box; the swordsman starts on the ground or, as    *)
(* the factory places it, 2 px above it.                                   *)

GroundLedgeX == { 300, 352, 400 }
GroundLedgeY == { 86, 92, 96, 100, 106, 110, 114 }
GroundEnemyY == { 94, 96 }

\* ticks per run
MaxGroundTicks == 5

InitGround ==
    /\ mode = "playing"
    /\ levelIndex = 2
    /\ \E lx \in GroundLedgeX : \E ly \in GroundLedgeY : \E ey \in GroundEnemyY :
          level = [levelFase2 EXCEPT !.platforms = Append(@, Plat(lx, ly, 36, 6)),
                                     !.enemies[1].y = Px(ey)]
    /\ player = makePlayer(Px(16), Px(40))
    /\ lastTime = 0
    /\ keysRef = NoKeys
    /\ fx = Fx("init", FALSE, 0, << >>)

GroundTick ==
    /\ level.tick < MaxGroundTicks
    /\ loop(lastTime + FrameUs, NoKeys)

NextGround == GroundTick

SpecGround == InitGround /\ [][NextGround]_vars

----------------------------------------------------------------------------
(* Properties *)

\* the number of cues `name` among cues
CueCount(cues, name) == Cardinality({ k \in DOMAIN cues : cues[k].cue = name })

\* the hit cues made at `site`
HitsAt(cues, site) == { k \in DOMAIN cues : cues[k].site = site }

\* the level kind of an index, as the claim lists them
KindAt(i) ==
    IF i = 0 THEN "intro" ELSE IF i = 1 THEN "fase1" ELSE IF i = 2 THEN "fase2"
    ELSE IF i = 3 THEN "fase3" ELSE IF i = 4 THEN "boss" ELSE "none"

\* the factory value and the spawn point of an index
FactoryAt(i) ==
    IF i = 0 THEN levelIntro ELSE IF i = 1 THEN levelFase1 ELSE IF i = 2 THEN levelFase2
    ELSE IF i = 3 THEN levelFase3 ELSE levelBoss

SpawnAt(i) == IF i = 4 THEN makePlayer(Px(24), Px(40)) ELSE makePlayer(Px(16), Px(40))

\* C1: the mode changes only menu -> playing on start (Enter or the button),
\* playing -> win on a frame that finds the player on the collectible of the
\* boss level (index 4), playing -> gameover on a frame that leaves the player
\* below y = 144 + 10, and win / gameover -> playing on Enter, at level 0.
C1_ModeTransitions ==
    [][mode' # mode =>
        \/ /\ mode = "menu" /\ mode' = "playing"
           /\ fx'.op \in {"enter", "click"} /\ levelIndex' = 0 /\ level'.kind = "intro"
        \/ /\ mode = "playing" /\ mode' = "win"
           /\ fx'.op = "frame" /\ fx'.nextLevel = 1
           /\ levelIndex = 4 /\ level.kind = "boss" /\ level'.kind = "boss"
           /\ aabb(player', level'.gem)
        \/ /\ mode = "playing" /\ mode' = "gameover"
           /\ fx'.op = "frame" /\ player'.y > Px(144 + 10)
        \/ /\ mode \in {"win", "gameover"} /\ mode' = "playing"
           /\ fx'.op = "enter" /\ levelIndex' = 0 /\ level'.kind = "intro"]_vars

\* the game was just won on the boss level
C1_Witness ==
    mode = "win" /\ fx.op = "frame" /\ fx.nextLevel = 1 /\ level.kind = "boss"

\* C2: a frame in mode menu, win or gameover leaves the Level and the Player
\* as they were and does not run update; a frame runs update only in mode
\* playing.
C2_FrozenUnlessPlaying ==
    [][fx'.op = "frame" =>
        IF mode \in {"menu", "win", "gameover"}
        THEN level' = level /\ player' = player /\ ~fx'.updated
        ELSE mode = "playing" /\ fx'.updated]_vars

\* a frame passed over a lost game whose level had run
C2_Witness ==
    /\ mode = "gameover" /\ fx.op = "frame" /\ ~fx.updated
    /\ level.tick > 0 /\ player.y > Px(BASE_H + LoseMargin)

\* C3: a frame calls nextLevel at most once, with one collect cue per call;
\* a call is made only in mode playing for an overlap that was not there
\* before the frame, and the handler after a call makes none: on levels 0..3
\* the player and the level are replaced, on the boss level the mode is win.
C3_OneAdvancePerOverlap ==
    [][/\ fx'.nextLevel \in {0, 1}
       /\ CueCount(fx'.cues, "collect") = fx'.nextLevel
       /\ (fx'.nextLevel = 1 => mode = "playing" /\ ~aabb(player, level.gem))
       /\ (fx.nextLevel = 1 => fx'.nextLevel = 0)
       /\ (aabb(player, level.gem) => fx'.nextLevel = 0)]_vars

\* a frame after the win: the player is still on the collectible, no call
C3_Witness ==
    /\ mode = "win" /\ fx.op = "frame" /\ fx.nextLevel = 0
    /\ aabb(player, level.gem) /\ levelIndex = 5

\* C4: the level index changes by +1, on a frame of a running game that
\* calls nextLevel, or to 0, on a start or restart; every call adds 1; in
\* mode playing the index is in 0..4 and the level's kind is the index's.
C4_LevelsInOrder ==
    [][/\ levelIndex' # levelIndex =>
            \/ levelIndex' = levelIndex + 1 /\ mode = "playing" /\ fx'.nextLevel = 1
            \/ levelIndex' = 0 /\ fx'.op \in {"enter", "click"} /\ mode # "playing"
       /\ fx'.nextLevel = 1 => levelIndex' = levelIndex + 1
       /\ fx'.op \in {"enter", "click"} /\ mode # "playing" => levelIndex' = 0
       /\ mode' = "playing" => levelIndex' \in 0..4 /\ level'.kind = KindAt(levelIndex')]_vars

\* the boss level is being played
C4_Witness ==
    mode = "playing" /\ levelIndex = 4 /\ level.kind = "boss" /\ level.tick > 0

\* C5: after a start or restart and after an advance to a level 1..4, the
\* Level is its factory's value (tick 0, camera 0, no projectiles, the
\* enemies alive, the boss at hp 3, phase 0, timer 0) and the Player is
\* makePlayer at the spawn point (no velocity, not crouching, canFireAt 0).
C5_FreshLevelAndPlayer ==
    [][(fx'.op \in {"enter", "click"} /\ mode # "playing")
       \/ (fx'.nextLevel = 1 /\ levelIndex' \in 1..4) =>
        /\ level' = FactoryAt(levelIndex')
        /\ level'.tick = 0 /\ level'.cameraX = 0
        /\ level'.projs = << >> /\ level'.arrows = << >>
        /\ \A j \in DOMAIN level'.enemies : level'.enemies[j].alive
        /\ \A j \in DOMAIN level'.boss :
              level'.boss[j].hp = 3 /\ level'.boss[j].phase = 0 /\ level'.boss[j].timer = 0
        /\ player' = SpawnAt(levelIndex')
        /\ player'.x = (IF levelIndex' = 4 THEN Px(24) ELSE Px(16)) /\ player'.y = Px(40)
        /\ player'.vx = 0 /\ player'.vy = 0 /\ ~player'.crouch /\ player'.canFireAt = 0]_vars

\* fase3 was just entered, from a fase2 whose enemy was shot
C5_Witness ==
    /\ fx.nextLevel = 1 /\ levelIndex = 3
    /\ level = levelFase3 /\ player = makePlayer(Px(16), Px(40))

\* C6: the mode becomes gameover only by a frame of a running game; such a
\* frame ends in gameover, with one death cue, exactly when the player it
\* leaves has y > 144 + 10; a frame that calls nextLevel does not.
C6_GameOverOnlyByFalling ==
    [][/\ mode' = "gameover" /\ mode # "gameover" =>
            mode = "playing" /\ fx'.op = "frame" /\ fx'.updated
       /\ mode = "playing" /\ fx'.op = "frame" =>
            /\ mode' = "gameover" <=> player'.y > Px(144 + 10)
            /\ CueCount(fx'.cues, "death") = (IF mode' = "gameover" THEN 1 ELSE 0)
       /\ fx'.nextLevel = 1 => mode' # "gameover"]_vars

\* the player just fell out of the world
C6_Witness ==
    /\ mode = "gameover" /\ fx.op = "frame" /\ fx.updated
    /\ CueCount(fx.cues, "death") = 1 /\ player.y > Px(144 + 10)

\* C7: a tick at time t spawns one friendly projectile, with one shoot cue,
\* and sets canFireAt to t + 5000 ms, if Fire is held and t >= canFireAt;
\* otherwise it spawns none and leaves canFireAt alone.
C7_FireCooldown ==
    [][fx'.op = "frame" /\ fx'.updated /\ fx'.nextLevel = 0 =>
        LET t == lastTime'
            spawned == { i \in DOMAIN level'.projs :
                            level'.projs[i].friendly /\ level'.projs[i].life = 119 }
        IN IF keysRef'.fire /\ t >= player.canFireAt
           THEN /\ CueCount(fx'.cues, "shoot") = 1
                /\ Cardinality(spawned) = 1
                /\ Len(level'.projs) <= Len(level.projs) + 1
                /\ player'.canFireAt = t + 5000 * 1000
           ELSE /\ CueCount(fx'.cues, "shoot") = 0
                /\ spawned = { }
                /\ Len(level'.projs) <= Len(level.projs)
                /\ player'.canFireAt = player.canFireAt]_vars

\* frames at 1 ms and at 5001 ms, both firing: the second shot comes exactly
\* 5000 ms after the first
C7_Witness ==
    /\ level.tick = 2 /\ lastTime = 5001 * 1000 /\ Len(level.projs) = 2
    /\ player.canFireAt = 10001 * 1000 /\ CueCount(fx.cues, "shoot") = 1

C10_BossThreeHits ==
    [][fx'.updated /\ fx'.nextLevel = 0 /\ Len(level.boss) = 1 =>
        LET b == level.boss[1]
            b1 == level'.boss[1]
            hits == HitsAt(fx'.cues, "fireball-boss")
        IN /\ b1.hp = b.hp - Cardinality(hits)
           /\ b1.hp \in 0..3
           /\ b1.alive <=> b1.hp > 0
           /\ hits # { } => b.alive
           /\ \A k \in hits :
                 LET i == fx'.cues[k].i
                 IN /\ i \in DOMAIN level'.projs
                    /\ level'.projs[i].friendly /\ level'.projs[i].life = 0
                    /\ aabb(level'.projs[i], b)
           /\ (\A i \in DOMAIN level'.projs : ~aabb(level'.projs[i], b)) => b1.hp = b.hp]_vars

\* the third hit, in a tick of its own, just killed the boss
C10_Witness ==
    /\ Len(level.boss) = 1 /\ level.boss[1].hp = 0 /\ ~level.boss[1].alive
    /\ Cardinality(HitsAt(fx.cues, "fireball-boss")) = 1

\* the friendly projectiles that overlap the boss
OnBoss(lv) ==
    { i \in DOMAIN lv.projs : lv.projs[i].friendly /\ aabb(lv.projs[i], lv.boss[1]) }

\* C11: on the boss level the boss's hp is in 0..3 and the boss is alive
\* exactly while hp > 0; over a tick hp never grows, and falls by at most the
\* number of friendly projectiles on the boss; a boss that is not alive stays
\* so, with its hp, however many projectiles are on it.
C11_BossHpInvariant ==
    [][/\ Len(level'.boss) = 1 =>
            /\ level'.boss[1].hp \in 0..3
            /\ level'.boss[1].alive <=> level'.boss[1].hp > 0
       /\ fx'.updated /\ fx'.nextLevel = 0 /\ Len(level.boss) = 1 =>
            /\ level'.boss[1].hp <= level.boss[1].hp
            /\ level.boss[1].hp - level'.boss[1].hp <= Cardinality(OnBoss(level'))
            /\ ~level.boss[1].alive =>
                  ~level'.boss[1].alive /\ level'.boss[1].hp = level.boss[1].hp]_vars

\* the boss just died at hp 0 with two fireballs on it in the same tick: the
\* second found it dead and left hp alone
C11_Witness ==
    /\ Len(level.boss) = 1 /\ ~level.boss[1].alive /\ level.boss[1].hp = 0
    /\ Cardinality(OnBoss(level)) >= 2
    /\ Cardinality(HitsAt(fx.cues, "fireball-boss")) = 1

\* C12: the boss AI runs in the ticks that leave the boss alive.  In such a
\* tick a phase 0 with timer 90 (its 91st tick) finds the boss grounded and
\* ends in phase 1 with timer 0, and with a smaller timer stays phase 0 with
\* the timer one up; phase 1 with timer 100 (its 101st tick) ends in phase 2
\* with timer 0, phase 2 with timer 100 in phase 0 with timer 0, and with a
\* smaller timer each stays with the timer one up.
C12_PhaseTiming ==
    [][fx'.updated /\ fx'.nextLevel = 0 /\ Len(level.boss) = 1 /\ level'.boss[1].alive =>
        LET b == level.boss[1]
            b1 == level'.boss[1]
            last == IF b.phase = 0 THEN 90 ELSE 100
        IN /\ b.timer \in 0..last
           /\ IF b.timer = last
              THEN /\ b1.phase = (b.phase + 1) % 3 /\ b1.timer = 0
                   /\ b.phase = 0 => b1.grounded
              ELSE b1.phase = b.phase /\ b1.timer = b.timer + 1]_vars

\* the boss, never hit, is back in phase 0 with timer 0 after 91 + 101 + 101
\* ticks of the level
C12_Witness ==
    /\ Len(level.boss) = 1 /\ level.boss[1].alive /\ level.boss[1].hp = 3
    /\ level.boss[1].phase = 0 /\ level.boss[1].timer = 0
    /\ level.tick = 91 + 101 + 101

\* C13: the boss's phase is 0, 1 or 2; over a tick it stays or goes 0 -> 1,
\* 1 -> 2 or 2 -> 0, and the timer is 0 after a change; a tick that leaves the
\* boss not alive changes neither the phase nor the timer.
C13_PhaseMachine ==
    [][/\ Len(level'.boss) = 1 => level'.boss[1].phase \in {0, 1, 2}
       /\ fx'.updated /\ fx'.nextLevel = 0 /\ Len(level.boss) = 1 =>
            LET b == level.boss[1]
                b1 == level'.boss[1]
            IN /\ b1.phase # b.phase =>
                     /\ <<b.phase, b1.phase>> \in { <<0, 1>>, <<1, 2>>, <<2, 0>> }
                     /\ b1.timer = 0
               /\ ~b1.alive => b1.phase = b.phase /\ b1.timer = b.timer]_vars

\* a tick passed over the dead boss, its phase timer stopped mid-phase
C13_Witness ==
    /\ Len(level.boss) = 1 /\ ~level.boss[1].alive /\ level.boss[1].timer > 0
    /\ fx.updated /\ fx.nextLevel = 0 /\ HitsAt(fx.cues, "fireball-boss") = { }

\* the hostile projectiles a tick with frame factor dt added to lv, giving
\* lv1: those behind the ones that the tick's integration and filter kept
Spawned(lv, lv1, dt) ==
    LET kept == Cardinality({ i \in DOMAIN lv.arrows :
                                Keep(Integrate(lv.arrows[i], dt), lv.worldW) })
    IN SubSeq(lv1.arrows, kept + 1, Len(lv1.arrows))

\* C14: on the boss level (no enemies) a tick that leaves the boss alive adds
\* to level.arrows two shockwaves, the first flying left and the second right,
\* when it is the first tick of a phase 1, and one volley projectile, flying
\* left if the player's x is below the boss's and right otherwise, when it is
\* tick 1, 30 or 60 of a phase 2; any other tick, and any tick that leaves
\* the boss dead, adds nothing.
C14_BossSchedule ==
    [][fx'.updated /\ fx'.nextLevel = 0 /\ Len(level.boss) = 1 /\ level.enemies = << >> =>
        LET b == level.boss[1]
            b1 == level'.boss[1]
            new == Spawned(level, level', frameDt(lastTime' - lastTime))
        IN IF b1.alive /\ b.phase = 1 /\ b.timer + 1 = 1
           THEN /\ Len(new) = 2
                /\ new[1].vx = -Dec(16, 10) /\ new[2].vx = Dec(16, 10)
                /\ ~new[1].friendly /\ ~new[2].friendly
           ELSE IF b1.alive /\ b.phase = 2 /\ b.timer + 1 \in {1, 30, 60}
           THEN /\ Len(new) = 1
                /\ ~new[1].friendly
                /\ new[1].vx = (IF player'.x < b1.x THEN -Dec(18, 10) ELSE Dec(18, 10))
           ELSE new = << >>]_vars

\* tick 60 of a phase 2 just sent a volley projectile to the right, at a
\* player standing right of the boss
C14_Witness ==
    /\ Len(level.boss) = 1 /\ level.boss[1].alive
    /\ level.boss[1].phase = 2 /\ level.boss[1].timer = 60
    /\ player.x >= level.boss[1].x
    /\ Len(level.arrows) >= 1
    /\ level.arrows[Len(level.arrows)].life = 200
    /\ level.arrows[Len(level.arrows)].vx = Dec(18, 10)

\* the hostile projectiles of lv that knock the player p back: those that
\* overlap p, but for a crouching p those with the centre above p.y + 4
Knocking(lv, p) ==
    { i \in DOMAIN lv.arrows :
         /\ aabb(lv.arrows[i], p)
         /\ p.crouch => lv.arrows[i].y + lv.arrows[i].h \div 2 >= p.y + Px(4) }

\* C15: in a tick (no boss, no swordsman at the player) the hostile
\* projectiles that overlap a standing player, and those that overlap a
\* crouching player with the centre at or below the head line y + 4, each
\* make one hit cue, and the last of them leaves vx = 1.6 against its flight
\* and vy = -2.5; a projectile over a crouching player with the centre above
\* the head line makes no cue, and with no other the player's velocity is not
\* a knockback's.
C15_ArrowKnockback ==
    [][fx'.updated /\ fx'.nextLevel = 0 /\ Len(level'.boss) = 0 =>
        LET hitters == Knocking(level', player')
            hits == HitsAt(fx'.cues, "arrow-player")
        IN /\ { fx'.cues[k].i : k \in hits } = hitters
           /\ Cardinality(hits) = Cardinality(hitters)
           /\ \A i \in hitters :
                 (\A j \in hitters : j <= i) =>
                    /\ player'.vx = -Sign(level'.arrows[i].vx) * Dec(16, 10)
                    /\ player'.vy = -Dec(25, 10)
           /\ hitters = { } => player'.vy # -Dec(25, 10) /\ Abs(player'.vx) # Dec(16, 10)]_vars

\* a projectile is over the crouching player with its centre above the head
\* line, and the tick made no hit
C15_Witness ==
    /\ fx.updated /\ player.crouch /\ HitsAt(fx.cues, "arrow-player") = { }
    /\ \E i \in DOMAIN level.arrows :
          /\ aabb(level.arrows[i], player)
          /\ level.arrows[i].y + level.arrows[i].h \div 2 < player.y + Px(4)

\* the hostile projectiles of lv after a tick's integration and filter
ArrowsKept(lv, dt) ==
    SelectSeq([i \in 1..Len(lv.arrows) |-> Integrate(lv.arrows[i], dt)],
              LAMBDA ar : Keep(ar, lv.worldW))

\* C16: after a tick level.arrows begins with the projectiles it held
\* before, each moved by its velocity with its life one down, in order, less
\* only those whose life ran out or whose x left (-10, worldW + 10); the
\* hits on the player change and remove none, so a projectile that knocked
\* the player back is still there with its life above 0.
C16_ArrowsNotConsumed ==
    [][fx'.updated /\ fx'.nextLevel = 0 =>
        LET kept == ArrowsKept(level, frameDt(lastTime' - lastTime))
        IN /\ Len(level'.arrows) >= Len(kept)
           /\ SubSeq(level'.arrows, 1, Len(kept)) = kept
           /\ \A k \in HitsAt(fx'.cues, "arrow-player") :
                 /\ fx'.cues[k].i \in 1..Len(kept)
                 /\ level'.arrows[fx'.cues[k].i].life > 0]_vars

\* an archer's arrow just knocked the player back on fase3 and flies on
C16_Witness ==
    /\ level.kind = "fase3" /\ fx.updated
    /\ \E k \in HitsAt(fx.cues, "arrow-player") :
          /\ level.arrows[fx.cues[k].i].life > 0
          /\ aabb(level.arrows[fx.cues[k].i], player)
    /\ player.vy = -Dec(25, 10)

\* the state update holds when it reaches `moveAndCollide(p, ...)`, for the
\* tick from the current state with keys k at time t and frame factor dt
BeforeMove(k, t, dt) ==
    CHOOSE r \in
        { StepFire(s3, k, t) : s3 \in
        { StepInput(s2, k) : s2 \in
        { StepPlatforms(s1, dt) : s1 \in
        { StepTick(s0) : s0 \in
        { [lv |-> level, p |-> player, cues |-> << >>] } } } } } : TRUE

\* the body after moveAndCollide's horizontal pass
AfterHorizontal(body, platforms, dt) ==
    HorizontalPass([body EXCEPT !.x = body.x + Times(body.vx, dt)], platforms, 1)

\* the body overlaps no platform
Clear(body, platforms) == \A i \in DOMAIN platforms : ~aabb(body, platforms[i])

\* C17 as stated: in every tick the player's box overlaps no platform after
\* the horizontal pass of moveAndCollide, and none after the vertical pass.
C17_NoOverlapAfterPass ==
    [][fx'.updated /\ fx'.nextLevel = 0 =>
        \E dt \in { frameDt(IF lastTime = 0 THEN 0 ELSE lastTime' - lastTime) } :
        \E s \in { BeforeMove(keysRef', lastTime', dt) } :
        \E body \in { PlayerBody(s.p, dt) } :
           /\ Clear(AfterHorizontal(body, s.lv.platforms, dt), s.lv.platforms)
           /\ Clear(moveAndCollide(body, s.lv.platforms, dt), s.lv.platforms)]_vars

\* body.onGround for the player, body.grounded for the boss
Grounded(body) == IF "grounded" \in DOMAIN body THEN body.grounded ELSE body.onGround

\* the body falls straight down from above the only platform, within its
\* span, and its vertical step of this call takes it into the platform
Lands(body, platforms, dt) ==
    /\ Len(platforms) = 1
    /\ body.vx = 0 /\ body.vy > 0
    /\ body.y + body.h <= platforms[1].y
    /\ body.x >= platforms[1].x /\ body.x + body.w <= platforms[1].x + platforms[1].w
    /\ aabb([body EXCEPT !.y = body.y + Times(body.vy, dt)], platforms[1])

\* ... and moveAndCollide leaves it on the platform's top, at rest, grounded
Landed(body, platforms, dt) ==
    \E r \in { moveAndCollide(body, platforms, dt) } :
       /\ r.y + r.h = platforms[1].y
       /\ r.vy = 0 /\ r.vx = 0 /\ r.x = body.x
       /\ Grounded(r)

\* C18: in every tick on a level of one platform, the player as update
\* hands it to moveAndCollide, if it lands (vx = 0, vy > 0, above the
\* platform and within its span, the step overlapping it), comes out with
\* y + h equal to the platform's y, vy = 0 and onGround, and the tick leaves
\* the player there; the same holds of the boss's body falling with gravity
\* added and vx taken as 0, with grounded.
C18_Landing ==
    [][fx'.updated /\ fx'.nextLevel = 0 /\ Len(level.platforms) = 1 =>
        \E dt \in { frameDt(IF lastTime = 0 THEN 0 ELSE lastTime' - lastTime) } :
        \E s \in { BeforeMove(keysRef', lastTime', dt) } :
        \E body \in { PlayerBody(s.p, dt) } :
           /\ Lands(body, s.lv.platforms, dt) =>
                 /\ Landed(body, s.lv.platforms, dt)
                 /\ player'.y + player'.h = level'.platforms[1].y
                 /\ player'.x = body.x /\ player'.onGround
           /\ \A j \in DOMAIN level.boss :
                 \E b \in { [level.boss[j] EXCEPT
                                !.vx = 0,
                                !.vy = clamp(@ + Times(GRAVITY, dt), -Px(999), MAX_FALL)] } :
                    Lands(b, s.lv.platforms, dt) => Landed(b, s.lv.platforms, dt)]_vars

\* the player, dropped at the boss level's spawn point with no direction key
\* held, has just landed on the level's only platform
C18_Witness ==
    /\ level.kind = "boss" /\ level.tick = 18 /\ Len(level.platforms) = 1
    /\ fx.updated /\ keysRef = FireOnly
    /\ player.x = Px(24) /\ player.vx = 0 /\ player.vy = 0 /\ player.onGround
    /\ player.y + player.h = level.platforms[1].y

\* fase1's kinematic platform: x 308, w 34, vx 0.3, range [300, 360]
Kinematic(lv) == lv.platforms[7]

\* C19 as stated: the platform's direction changes in exactly the ticks that
\* leave x < 300 or x + 34 > 360, and it turns back from the right at or
\* before x = 326, its right edge not past 360.
C19_ReversesBy326 ==
    [][fx'.updated /\ fx'.nextLevel = 0 /\ level.kind = "fase1" =>
        LET pl == Kinematic(level)
            pl1 == Kinematic(level')
        IN /\ pl1.vx # pl.vx <=> (pl1.x < Px(300) \/ pl1.x + Px(34) > Px(360))
           /\ pl.vx > 0 /\ pl1.vx < 0 => pl1.x <= Px(326) /\ pl1.x + pl1.w <= Px(360)]_vars

\* C19: a tick moves the platform by vx * dt and then negates vx exactly if
\* the move left x < 300 or x + 34 > 360.  So the platform turns back from
\* the right in the first tick whose move takes x above 326, with the right
\* edge past 360 by at most one step (0.3), and from the left in the first
\* tick whose move takes x below 300, by at most one step; a tick that does
\* not turn it leaves it within [300, 360].
C19_PlatformReversal ==
    [][fx'.updated /\ fx'.nextLevel = 0 /\ level.kind = "fase1" =>
        LET pl == Kinematic(level)
            pl1 == Kinematic(level')
            dt == frameDt(lastTime' - lastTime)
            out == pl1.x < Px(300) \/ pl1.x + Px(34) > Px(360)
        IN /\ pl1.x = pl.x + Times(pl.vx, dt)
           /\ pl1.vx = (IF out THEN -pl.vx ELSE pl.vx)
           /\ Abs(pl1.vx) = Dec(3, 10)
           /\ pl.vx > 0 /\ pl1.vx < 0 =>
                 pl1.x > Px(326) /\ pl1.x <= Px(326) + Dec(3, 10) /\ pl.x <= Px(326)
           /\ pl.vx < 0 /\ pl1.vx > 0 =>
                 pl1.x < Px(300) /\ pl1.x >= Px(300) - Dec(3, 10) /\ pl.x >= Px(300)
           /\ ~out => pl1.x >= Px(300) /\ pl1.x + pl1.w <= Px(360)]_vars

\* the platform has just turned back from the right for the first time, its
\* right edge past 360
C19_Witness ==
    /\ level.kind = "fase1" /\ level.tick <= 61 /\ fx.updated
    /\ Kinematic(level).vx = -Dec(3, 10)
    /\ Kinematic(level).x > Px(326)
    /\ Kinematic(level).x + Kinematic(level).w > Px(360)

\* C20: over a tick the enemy collection keeps its length and order.  An
\* enemy alive before and dead after was hit in that tick by a friendly
\* projectile that overlaps it (one fireball hit cue names it).  An enemy dead
\* before is the same record after: dead, at the same place, with the same
\* direction and cooldown.  When every enemy is dead (and there is no boss)
\* the tick adds no hostile projectile, and unless a projectile in flight
\* hits the player, the player leaves the tick as moveAndCollide left it: a
\* dead enemy's box knocks nobody back.
C20_DeathIsFinal ==
    [][fx'.updated /\ fx'.nextLevel = 0 =>
        /\ Len(level'.enemies) = Len(level.enemies)
        /\ \A j \in DOMAIN level.enemies :
              /\ level'.enemies[j].type = level.enemies[j].type
              /\ level.enemies[j].alive /\ ~level'.enemies[j].alive =>
                    \E k \in HitsAt(fx'.cues, "fireball-enemy") :
                       /\ fx'.cues[k].j = j
                       /\ level'.projs[fx'.cues[k].i].friendly
                       /\ aabb(level'.projs[fx'.cues[k].i], level'.enemies[j])
              /\ ~level.enemies[j].alive => level'.enemies[j] = level.enemies[j]
        /\ (Len(level.boss) = 0 /\ \A j \in DOMAIN level.enemies : ~level.enemies[j].alive) =>
              \E dt \in { frameDt(IF lastTime = 0 THEN 0 ELSE lastTime' - lastTime) } :
              \E s \in { BeforeMove(keysRef', lastTime', dt) } :
                 /\ Spawned(level, level', dt) = << >>
                 /\ HitsAt(fx'.cues, "arrow-player") = { } =>
                       player' = moveAndCollide(PlayerBody(s.p, dt), s.lv.platforms, dt)]_vars

\* the player, knocked back by the living swordsman of fase2 on running
\* into it, has shot it and walks through it
C20_Witness ==
    /\ level.kind = "fase2" /\ fx.updated /\ fx.nextLevel = 0
    /\ ~level.enemies[1].alive /\ aabb(player, level.enemies[1])
    /\ HitsAt(fx.cues, "fireball-enemy") = { }

\* C21 as stated: over a tick the player's x changes by at most |vx * dt|,
\* for the velocity with which the player enters moveAndCollide; so a player
\* that stands up from a crouch while walking stays where it walks.
C21_NoFartherThanMotion ==
    [][fx'.updated /\ fx'.nextLevel = 0 =>
        \E dt \in { frameDt(IF lastTime = 0 THEN 0 ELSE lastTime' - lastTime) } :
        \E s \in { BeforeMove(keysRef', lastTime', dt) } :
        \E body \in { PlayerBody(s.p, dt) } :
           Abs(player'.x - player.x) <= Abs(Times(body.vx, dt))]_vars

\* A falling boss with every platform above it: nothing can ground it again.
BossLost(lv) ==
    /\ Len(lv.boss) = 1
    /\ lv.boss[1].alive
    /\ lv.boss[1].phase = 0
    /\ lv.boss[1].vy >= 0
    /\ \A i \in DOMAIN lv.platforms :
          lv.platforms[i].y + lv.platforms[i].h <= lv.boss[1].y

\* C22 as stated: every phase 0 ends with the boss grounded, so while the game
\* is played the living boss is never falling below every platform of the
\* level, from where no tick can ground it.
C22_BossCanLand == mode = "playing" => ~BossLost(level)

\* Once the boss is lost it stays lost, in phase 0, at every later tick.
C22_LostIsPermanent == [][BossLost(level) => BossLost(level')]_vars

\* C23: in a tick the jump velocity is given (and the jump cue raised) only if
\* Jump is held, the player was grounded when the tick began and Crouch is not
\* held; the crouch flag is set only if Crouch is held and the player was
\* grounded when the tick began.
C23_JumpCrouchGate ==
    [][fx'.updated /\ fx'.nextLevel = 0 =>
        \E dt \in { frameDt(IF lastTime = 0 THEN 0 ELSE lastTime' - lastTime) } :
        \E s \in { BeforeMove(keysRef', lastTime', dt) } :
           /\ CueCount(fx'.cues, "jump") > 0 \/ (s.p.vy = JUMP_VEL /\ player.vy # JUMP_VEL)
                 => keysRef'.jump /\ player.onGround /\ ~keysRef'.crouch /\ ~player'.crouch
           /\ CueCount(fx'.cues, "jump") > 0 => s.p.vy = JUMP_VEL
           /\ player'.crouch => keysRef'.crouch /\ player.onGround
           /\ keysRef'.crouch /\ keysRef'.jump /\ player.onGround
                 => CueCount(fx'.cues, "jump") = 0 /\ s.p.vy = player.vy
           /\ ~player.onGround => CueCount(fx'.cues, "jump") = 0 /\ s.p.vy = player.vy]_vars

\* a jump has started, Crouch and Jump have been held together on the ground,
\* and Jump has been held in the air
C23_Witness ==
    /\ fx.updated
    /\ CueCount(fx.cues, "jump") > 0
    /\ keysRef = JumpOnly

C23_WitnessBoth ==
    /\ fx.updated
    /\ keysRef = CrouchJump
    /\ player.crouch
    /\ player.onGround

C23_WitnessAirborne ==
    /\ fx.updated
    /\ keysRef.jump
    /\ ~player.onGround
    /\ CueCount(fx.cues, "jump") = 0
    /\ player.vy < 0

\* C24: after every tick the player's height is 8 with the crouch flag set and
\* 12 without it; on a tick where the height goes from 12 to 8 the body handed
\* to moveAndCollide has the feet (y + h) where they were.
C24_CrouchHitbox ==
    [][fx'.updated =>
        /\ player'.h = IF player'.crouch THEN Px(8) ELSE Px(12)
        /\ fx'.nextLevel = 0 /\ player'.h < player.h =>
            \E dt \in { frameDt(IF lastTime = 0 THEN 0 ELSE lastTime' - lastTime) } :
            \E s \in { BeforeMove(keysRef', lastTime', dt) } :
            \E body \in { PlayerBody(s.p, dt) } :
               /\ body.h = Px(8)
               /\ body.y + body.h = player.y + player.h
               /\ player' = moveAndCollide(body, s.lv.platforms, dt)]_vars

\* the player has crouched on the ground and its feet are still on it
C24_Witness ==
    /\ fx.updated
    /\ player.crouch
    /\ player.h = Px(8)
    /\ player.onGround
    /\ player.y + player.h = Px(110)

\* the state update has reached when it integrates the projectiles
BeforeProjectiles(k, t, dt) ==
    CHOOSE r \in
        { StepEnemies(s5, dt) : s5 \in
        { StepPlayerMove(s4, dt) : s4 \in
        { BeforeMove(k, t, dt) } } } : TRUE

\* a collection after the integration and the filter
Culled(q, worldW, dt) ==
    SelectSeq([i \in 1..Len(q) |-> Integrate(q[i], dt)], LAMBDA pr : Keep(pr, worldW))

\* the life a projectile is made with: fireball, shockwave, volley, arrow
InitialLife(pr) ==
    IF pr.friendly THEN 120
    ELSE IF pr.w = Px(6) THEN 90
    ELSE IF Abs(pr.vx) = Dec(18, 10) THEN 200
    ELSE 240

InWorld(pr, lv) == pr.x > -Px(10) /\ pr.x < lv.worldW + Px(10)

\* C25: a tick leaves in level.projs and at the head of level.arrows exactly
\* the projectiles that were there at its integration, each moved by its
\* velocity with its life one down, less those whose life reached 0 or whose
\* x left (-10, worldW + 10); what the filter kept has life > 0 and x inside
\* these bounds, and only a fireball that hit has its life set to 0 after it.
\* No projectile ever has more life than it was made with, so none outlives
\* that many ticks.
C25_ProjectileLifetime ==
    [][fx'.updated /\ fx'.nextLevel = 0 =>
        \E dt \in { frameDt(IF lastTime = 0 THEN 0 ELSE lastTime' - lastTime) } :
        \E s \in { BeforeProjectiles(keysRef', lastTime', dt) } :
        \E ps \in { Culled(s.lv.projs, s.lv.worldW, dt) } :
        \E as \in { Culled(s.lv.arrows, s.lv.worldW, dt) } :
           /\ Len(level'.projs) = Len(ps)
           /\ \A i \in DOMAIN ps :
                 /\ ps[i].life > 0 /\ InWorld(ps[i], level')
                 /\ \E j \in DOMAIN s.lv.projs :
                       /\ ps[i].life = s.lv.projs[j].life - 1
                       /\ ps[i].x = s.lv.projs[j].x + Times(s.lv.projs[j].vx, dt)
                 /\ level'.projs[i].x = ps[i].x
                 /\ level'.projs[i].life = ps[i].life
                    \/ /\ level'.projs[i].life = 0
                       /\ \E k \in DOMAIN fx'.cues :
                             /\ fx'.cues[k].site \in {"fireball-enemy", "fireball-boss"}
                             /\ fx'.cues[k].i = i
           /\ Len(level'.arrows) >= Len(as)
           /\ SubSeq(level'.arrows, 1, Len(as)) = as
           /\ \A i \in DOMAIN as :
                 /\ as[i].life > 0 /\ InWorld(as[i], level')
                 /\ \E j \in DOMAIN s.lv.arrows :
                       /\ as[i].life = s.lv.arrows[j].life - 1
                       /\ as[i].x = s.lv.arrows[j].x + Times(s.lv.arrows[j].vx, dt)
           /\ Len(ps) = Cardinality({ j \in DOMAIN s.lv.projs :
                     /\ s.lv.projs[j].life > 1
                     /\ InWorld([x |-> s.lv.projs[j].x + Times(s.lv.projs[j].vx, dt)], level') })
           /\ Len(as) = Cardinality({ j \in DOMAIN s.lv.arrows :
                     /\ s.lv.arrows[j].life > 1
                     /\ InWorld([x |-> s.lv.arrows[j].x + Times(s.lv.arrows[j].vx, dt)], level') })
           /\ \A i \in DOMAIN level'.projs :
                 level'.projs[i].life < InitialLife(level'.projs[i])
           /\ \A i \in DOMAIN level'.arrows :
                 /\ level'.arrows[i].life > 0
                 /\ level'.arrows[i].life <= InitialLife(level'.arrows[i])]_vars

\* a fireball and a hostile projectile are on their last tick: the next
\* filter removes them
C25_Witness ==
    /\ mode = "playing"
    /\ fx.updated
    /\ \E i \in DOMAIN level.projs : level.projs[i].life = 1 /\ InWorld(level.projs[i], level)

C25_WitnessArrow ==
    /\ mode = "playing"
    /\ fx.updated
    /\ \E i \in DOMAIN level.arrows : level.arrows[i].life = 1

\* C26 as stated: after any tick, whatever the frame factors, a living
\* patroller whose box is partly outside [minX, maxX] is heading back.
C26_PatrolHeadsBack ==
    [][fx'.updated /\ fx'.nextLevel = 0 =>
        \A i \in DOMAIN level'.enemies :
           LET e == level'.enemies[i]
           IN e.type = "swordsman" /\ e.alive =>
                 /\ e.x < e.minX => e.dir = 1
                 /\ e.x + e.w > e.maxX => e.dir = -1]_vars

\* C29 as stated: in every reachable state, whatever the frame factors, a
\* kinematic platform is within its range but for one tick's largest step.
C29_PlatformWithinRange ==
    \A i \in DOMAIN level.platforms :
       LET pl == level.platforms[i]
       IN Len(pl.range) = 2 =>
             /\ pl.range[1] - Times(Abs(pl.vx), (3 * DtScale) \div 2) <= pl.x
             /\ pl.x + pl.w <= pl.range[2] + Times(Abs(pl.vx), (3 * DtScale) \div 2)

\* C27: a tick takes 1 from the cooldown of every living shooter; when that
\* leaves 0 or less the shooter adds exactly one hostile projectile, flying
\* at +1.6 if the player's x is above the shooter's and at -1.6 otherwise, and
\* its cooldown becomes its fire rate, 180; on the other ticks it adds none.
\* The shooter of fase3, with cooldown 0 at first, so shoots on the ticks
\* 1, 181, 361, ... of the level, 180 ticks apart.
C27_ShooterCadence ==
    [][fx'.updated /\ fx'.nextLevel = 0 /\ level.kind = "fase3" =>
        \E dt \in { frameDt(IF lastTime = 0 THEN 0 ELSE lastTime' - lastTime) } :
        \E kept \in { Len(Culled(level.arrows, level.worldW, dt)) } :
        \A i \in DOMAIN level.enemies :
           LET e == level.enemies[i]
               e1 == level'.enemies[i]
               shot == level'.arrows[kept + 1]
           IN e.type = "archer" /\ e.alive =>
                 /\ e1.fireRate = 180
                 /\ IF e.cooldown - 1 <= 0
                    THEN /\ e1.cooldown = 180
                         /\ Len(level'.arrows) = kept + 1
                         /\ ~shot.friendly
                         /\ shot.life = 239
                         /\ shot.vx = IF player'.x > e.x THEN Dec(16, 10) ELSE -Dec(16, 10)
                         /\ shot.x = e.x + e.w + Times(shot.vx, dt)
                    ELSE /\ e1.cooldown = e.cooldown - 1
                         /\ Len(level'.arrows) = kept
                 /\ level'.tick % 180 = 1 <=> e.cooldown - 1 <= 0]_vars

\* the shooter has just made its fourth shot, to the right, at the player
\* that has walked past it
C27_Witness ==
    /\ level.kind = "fase3"
    /\ level.tick = 541
    /\ level.enemies[1].alive
    /\ level.enemies[1].cooldown = 180
    /\ player.x > level.enemies[1].x
    /\ Len(level.arrows) > 0
    /\ level.arrows[Len(level.arrows)].vx = Dec(16, 10)
    /\ level.arrows[Len(level.arrows)].life = 239

\* and its second shot, to the left
C27_WitnessLeft ==
    /\ level.kind = "fase3"
    /\ level.tick = 181
    /\ level.enemies[1].cooldown = 180
    /\ player.x < level.enemies[1].x
    /\ level.arrows[Len(level.arrows)].vx = -Dec(16, 10)
    /\ level.arrows[Len(level.arrows)].life = 239

\* the platforms under the feet of a: those whose span meets a's and whose
\* top is at or below a.y + a.h
UnderFeet(a, platforms) ==
    { j \in DOMAIN platforms :
        /\ a.x + a.w > platforms[j].x
        /\ a.x < platforms[j].x + platforms[j].w
        /\ platforms[j].y >= a.y + a.h }

\* the box a living enemy hands to findGroundBelow in a tick with factor dt
GroundBound(e, dt) == IF e.type = "swordsman" THEN Patrol(e, dt) ELSE e

C30_CompletionByOverlapOnly ==
    [][fx'.updated =>
        \E dt \in { frameDt(IF lastTime = 0 THEN 0 ELSE lastTime' - lastTime) } :
        \E u \in { update(level, player, keysRef', lastTime', dt) } :
           IF aabb(u.p, u.lv.gem)
           THEN /\ fx'.nextLevel = 1
                /\ levelIndex' = levelIndex + 1
                /\ IF levelIndex = 4
                   THEN mode' = "win" /\ level' = u.lv /\ player' = u.p
                   ELSE mode' = "playing" /\ level' = FactoryAt(levelIndex + 1)
           ELSE /\ fx'.nextLevel = 0
                /\ levelIndex' = levelIndex
                /\ mode' # "win"
                /\ level' = u.lv]_vars

\* the game is won with the boss alive, no hit taken
C30_Witness ==
    /\ mode = "win"
    /\ levelIndex = 5
    /\ aabb(player, level.gem)
    /\ level.boss[1].alive
    /\ level.boss[1].hp = 3

\* the game is won with the boss dead (after the siege of SpecBoss)
C30_WitnessDead ==
    /\ mode = "win"
    /\ aabb(player, level.gem)
    /\ ~level.boss[1].alive

\* C31: Enter pressed while the mode is playing leaves the mode, the level
\* index, the Level and the Player as they are (and the frame clock and the
\* keys with them); pressed in menu, win or gameover it starts the game at
\* level 0 with a new Player.
C31_EnterWhilePlaying ==
    [][fx'.op = "enter" =>
        IF mode = "playing"
        THEN UNCHANGED <<mode, levelIndex, level, player, lastTime, keysRef>>
        ELSE /\ mode \in {"menu", "win", "gameover"}
             /\ mode' = "playing"
             /\ levelIndex' = 0
             /\ level' = levelIntro
             /\ player' = makePlayer(Px(16), Px(40))]_vars

\* Enter has been pressed in the middle of fase1, which goes on
C31_Witness ==
    /\ fx.op = "enter"
    /\ mode = "playing"
    /\ levelIndex = 1
    /\ level.kind = "fase1"
    /\ level.tick > 0
    /\ player.x > Px(16)

====
